---- MODULE Spec2Model ----
(***************************************************************************)
(* metafy-seo: the reactive head reconciler (<SeoTags>), the static        *)
(* renderer (generateSeoMarkup) and the config merger (mergeConfig /       *)
(* deepMerge), modelled as state machines over a document head.            *)
(*                                                                         *)
(* Strings are sequences of lexemes: every character that some code path   *)
(* treats specially (& < > " ' \ and the template placeholder %s) is a     *)
(* lexeme of its own, and every other lexeme is an opaque run of ordinary  *)
(* characters.  String literals of the source are written in the same      *)
(* lexeme split wherever they can meet (og: + key, prefix + : + key).      *)
(*                                                                         *)
(* JavaScript values are tagged records; an object is a function from its  *)
(* keys to values, and its keys are enumerated in the order of KeyOrder.   *)
(***************************************************************************)
EXTENDS Integers, Sequences, FiniteSets, TLC

VARIABLES
    head,       \* document.head: the sequence of its child elements
    nextId,     \* identity of the next element document.createElement makes
    isServer,   \* utils.isServer
    defaults,   \* SeoProvider defaults (NoProvider when no provider is mounted)
    inst,       \* per <SeoTags> instance: lifecycle, props, config, prevConfigRef, cleanup closure
                \*   (and, as history, seen: the ids in the head before its first pass)
    owner,      \* history: element id -> instance that created it (0: authored in the page)
    updated,    \* history: instance -> ids of the elements it updated in place without creating them
    last,       \* history: the last lifecycle step taken, and how many were taken
    fn          \* a single call of a pure function: its arguments and its result

vars == <<head, nextId, isServer, defaults, inst, owner, updated, last, fn>>

(***************************************************************************)
(* Bounds                                                                  *)
(***************************************************************************)
MaxSteps == 4

\* the claims speak of one instance and of a pair of instances
Instances == {1, 2}

(***************************************************************************)
(* JavaScript values                                                       *)
(***************************************************************************)
Undefined == [t |-> "undefined"]
Str(s) == [t |-> "string", v |-> s]
Bool(b) == [t |-> "boolean", v |-> b]
Num(n) == [t |-> "number", v |-> n]
Arr(a) == [t |-> "array", v |-> a]
Obj(f) == [t |-> "object", v |-> f]

EmptyObj == Obj(<<>>)

\* JS truthiness (the values the configuration can hold)
Truthy(x) ==
    CASE x.t = "undefined" -> FALSE
      [] x.t = "string" -> x.v # <<>>
      [] x.t = "boolean" -> x.v
      [] x.t = "number" -> x.v # 0
      [] OTHER -> TRUE

IsPlainObject(x) == x.t = "object"

HasKey(o, k) == o.t = "object" /\ k \in DOMAIN o.v

\* property read o[k] / o.k (undefined for a missing key, as in JS)
Get(o, k) == IF HasKey(o, k) THEN o.v[k] ELSE Undefined

\* String(x) / the string setAttribute stores for x
ToStr(x) ==
    CASE x.t = "string" -> x.v
      [] x.t = "number" -> <<ToString(x.v)>>
      [] x.t = "boolean" -> IF x.v THEN <<"true">> ELSE <<"false">>
      [] x.t = "undefined" -> <<"undefined">>
      [] OTHER -> <<"[object Object]">>

\* enumeration order of object keys (Object.keys, for..in, Object.entries)
KeyOrder ==
    << "title", "titleTemplate", "description", "canonical", "robots", "noindex",
       "nofollow", "viewport", "themeColor", "author", "publisher", "language",
       "openGraph", "twitter", "languageAlternates", "icons", "siteVerification",
       "facebook", "extraMeta", "extraLinks", "structuredData",
       "url", "type", "siteName", "images", "locale", "article", "book", "profile", "video",
       "alt", "width", "height",
       "publishedTime", "section", "tags", "authors", "actors", "actor", "role",
       "card", "site", "creator", "image", "imageAlt",
       "icon", "apple", "mask", "manifest", "color",
       "google", "bing", "yandex", "pinterest", "appId",
       "en", "fr",
       "name", "property", "content", "rel", "href", "sizes", "hreflang",
       "@context", "@type" >>

Keys(o) == SelectSeq(KeyOrder, LAMBDA k : k \in DOMAIN o.v)

(***************************************************************************)
(* JSON.stringify                                                          *)
(***************************************************************************)
RECURSIVE JsonQuote(_)
JsonQuote(s) ==
    IF s = <<>> THEN <<>>
    ELSE (IF Head(s) \in {"\"", "\\"} THEN <<"\\", Head(s)>> ELSE <<Head(s)>>)
         \o JsonQuote(Tail(s))

RECURSIVE JSONstringify(_)
RECURSIVE JsonMembers(_, _, _)
RECURSIVE JsonItems(_, _)

\* the members of object o for the keys ks; a key whose value is undefined is dropped
JsonMembers(o, ks, first) ==
    IF ks = <<>> THEN <<>>
    ELSE IF o.v[Head(ks)].t = "undefined" THEN JsonMembers(o, Tail(ks), first)
    ELSE (IF first THEN <<>> ELSE <<",">>)
         \o <<"\"", Head(ks), "\"", ":">> \o JSONstringify(o.v[Head(ks)])
         \o JsonMembers(o, Tail(ks), FALSE)

\* the items of an array; an undefined item is written as null
JsonItems(a, first) ==
    IF a = <<>> THEN <<>>
    ELSE (IF first THEN <<>> ELSE <<",">>)
         \o (IF Head(a).t = "undefined" THEN <<"null">> ELSE JSONstringify(Head(a)))
         \o JsonItems(Tail(a), FALSE)

JSONstringify(x) ==
    CASE x.t = "string" -> <<"\"">> \o JsonQuote(x.v) \o <<"\"">>
      [] x.t = "number" -> <<ToString(x.v)>>
      [] x.t = "boolean" -> IF x.v THEN <<"true">> ELSE <<"false">>
      [] x.t = "array" -> <<"[">> \o JsonItems(x.v, TRUE) \o <<"]">>
      [] x.t = "object" -> <<"{">> \o JsonMembers(x, Keys(x), TRUE) \o <<"}">>
      [] OTHER -> <<"null">>

(***************************************************************************)
(* utils.deepMerge and SeoProvider.mergeConfig                             *)
(***************************************************************************)
RECURSIVE deepMerge(_, _)
RECURSIVE deepMergeKeys(_, _, _, _)
RECURSIVE deepMergeKeys_shallow(_, _, _, _)
RECURSIVE deepMergeKeys_concat(_, _, _, _)

deepMergeKeys_shallow(target, source, ks, result) ==
    IF ks = <<>> THEN result
    ELSE deepMergeKeys_shallow(target, source, Tail(ks),
             IF source.v[Head(ks)].t # "undefined"
             THEN (Head(ks) :> source.v[Head(ks)]) @@ result ELSE result)

deepMergeKeys_concat(target, source, ks, result) ==
    IF ks = <<>> THEN result
    ELSE LET key == Head(ks)
             sourceValue == source.v[key]
             targetValue == Get(target, key)
             merged ==
                 IF sourceValue.t = "object" /\ targetValue.t = "object"
                 THEN (key :> deepMerge(targetValue, sourceValue)) @@ result
                 ELSE IF sourceValue.t = "array" /\ targetValue.t = "array"
                 THEN (key :> Arr(targetValue.v \o sourceValue.v)) @@ result
                 ELSE IF sourceValue.t # "undefined"
                 THEN (key :> sourceValue) @@ result
                 ELSE result
         IN deepMergeKeys_concat(target, source, Tail(ks), merged)

\* the for..in loop of deepMerge over the keys ks of source, result so far in result
deepMergeKeys(target, source, ks, result) ==
    IF ks = <<>> THEN result
    ELSE LET key == Head(ks)
             sourceValue == source.v[key]
             targetValue == Get(target, key)
             merged ==
                 IF sourceValue.t = "object" /\ targetValue.t = "object"
                 THEN (key :> deepMerge(targetValue, sourceValue)) @@ result
                 ELSE IF sourceValue.t # "undefined"
                 THEN (key :> sourceValue) @@ result
                 ELSE result
         IN deepMergeKeys(target, source, Tail(ks), merged)

deepMerge(target, source) ==
    Obj(deepMergeKeys(target, source, Keys(source), target.v))

\* no <SeoProvider> above the component: the context's default mergeConfig
NoProvider == [t |-> "none"]

defaultMergeConfig(c) == c

mergeConfig(dflt, config) ==
    IF dflt = NoProvider THEN defaultMergeConfig(config)
    ELSE LET merged == deepMerge(dflt, config)
         IN IF Truthy(Get(dflt, "titleTemplate")) /\ ~Truthy(Get(config, "titleTemplate"))
            THEN Obj(("titleTemplate" :> Get(dflt, "titleTemplate")) @@ merged.v)
            ELSE merged

(***************************************************************************)
(* deepMerge and mergeConfig on objects with identity                      *)
(*   heap: sequence of objects, each a function from keys to cells; the    *)
(*   address of an object is its index. A cell is a reference to a plain   *)
(*   object or a value (strings, numbers, booleans, undefined and arrays:  *)
(*   neither function writes to an array)                                  *)
(***************************************************************************)
MaxMerges == 2

Ref(a) == [t |-> "ref", a |-> a]

RECURSIVE alloc(_, _)
RECURSIVE allocKeys(_, _, _, _)
RECURSIVE deref(_, _)
RECURSIVE deepMergeRef(_, _, _)
RECURSIVE deepMergeRefKeys(_, _, _, _, _)

\* the fields of the object literal x for the keys ks, nested object literals
\* allocated first
allocKeys(heap, x, ks, fields) ==
    IF ks = <<>> THEN [heap |-> heap, fields |-> fields]
    ELSE LET val == x.v[Head(ks)]
             nested == alloc(heap, val)
         IN IF IsPlainObject(val)
            THEN allocKeys(nested.heap, x, Tail(ks), (Head(ks) :> nested.ref) @@ fields)
            ELSE allocKeys(heap, x, Tail(ks), (Head(ks) :> val) @@ fields)

\* a new object for the object literal x: the heap with it and its address
alloc(heap, x) ==
    LET made == allocKeys(heap, x, Keys(x), <<>>)
    IN [heap |-> Append(made.heap, made.fields), ref |-> Ref(Len(made.heap) + 1)]

\* the value a cell denotes in a heap
deref(heap, cell) ==
    IF cell.t = "ref"
    THEN Obj([k \in DOMAIN heap[cell.a] |-> deref(heap, heap[cell.a][k])])
    ELSE cell

\* deepMerge writing to target itself instead of a copy
deepMergeRef_inPlace(heap, target, source) ==
    [heap |-> deepMergeRefKeys(heap, target, source, Keys(Obj(heap[source.a])), target),
     ref |-> target]

\* const result = { ...target }; the loop; return result
deepMergeRef(heap, target, source) ==
    LET copied == Append(heap, heap[target.a])
        result == Ref(Len(copied))
    IN [heap |-> deepMergeRefKeys(copied, target, source, Keys(Obj(heap[source.a])), result),
        ref |-> result]

\* the for..in loop over the keys ks of source: the heap after the writes to result
deepMergeRefKeys(heap, target, source, ks, result) ==
    IF ks = <<>> THEN heap
    ELSE LET key == Head(ks)
             sourceValue == heap[source.a][key]
             targetValue == IF key \in DOMAIN heap[target.a] THEN heap[target.a][key] ELSE Undefined
             merged == deepMergeRef(heap, targetValue, sourceValue)
         IN IF sourceValue.t = "ref" /\ targetValue.t = "ref"
            THEN deepMergeRefKeys([merged.heap EXCEPT ![result.a] = (key :> merged.ref) @@ @],
                                  target, source, Tail(ks), result)
            ELSE IF sourceValue.t # "undefined"
            THEN deepMergeRefKeys([heap EXCEPT ![result.a] = (key :> sourceValue) @@ @],
                                  target, source, Tail(ks), result)
            ELSE deepMergeRefKeys(heap, target, source, Tail(ks), result)

\* mergeConfig of the provider (dflt a reference) or of the bare context
mergeConfigRef(heap, dflt, config) ==
    IF dflt = NoProvider THEN [heap |-> heap, ref |-> config]
    ELSE LET merged == deepMergeRef(heap, dflt, config)
             template == IF "titleTemplate" \in DOMAIN heap[dflt.a]
                         THEN heap[dflt.a]["titleTemplate"] ELSE Undefined
             own == IF "titleTemplate" \in DOMAIN heap[config.a]
                    THEN heap[config.a]["titleTemplate"] ELSE Undefined
         IN IF Truthy(template) /\ ~Truthy(own)
            THEN [heap |-> [merged.heap EXCEPT ![merged.ref.a] = ("titleTemplate" :> template) @@ @],
                  ref |-> merged.ref]
            ELSE merged

(***************************************************************************)
(* String helpers                                                          *)
(***************************************************************************)
IsPrefix(p, s) == Len(p) <= Len(s) /\ SubSeq(s, 1, Len(p)) = p

Range(s) == {s[i] : i \in DOMAIN s}

\* index of the first occurrence of lexeme x in s, 0 when there is none
IndexOf(s, x) ==
    LET hits == {i \in DOMAIN s : s[i] = x}
    IN IF hits = {} THEN 0 ELSE CHOOSE i \in hits : \A j \in hits : i <= j

\* the replacement patterns String.prototype.replace expands in a string replacement
\* ($$, $& and $'; the lexeme alphabet has no backquote)
RECURSIVE ExpandReplacement(_, _, _, _)
ExpandReplacement(repl, matched, before, after) ==
    IF repl = <<>> THEN <<>>
    ELSE IF Head(repl) = "$" /\ Len(repl) >= 2 /\ repl[2] \in {"$", "&", "'"}
    THEN (CASE repl[2] = "$" -> <<"$">>
            [] repl[2] = "&" -> matched
            [] OTHER -> after)
         \o ExpandReplacement(Tail(Tail(repl)), matched, before, after)
    ELSE <<Head(repl)>> \o ExpandReplacement(Tail(repl), matched, before, after)

\* template.replace('%s', title): the first occurrence only
replacePlaceholder(template, title) ==
    LET i == IndexOf(template, "%s")
    IN IF i = 0 THEN template
       ELSE LET before == SubSeq(template, 1, i - 1)
                after == SubSeq(template, i + 1, Len(template))
            IN before \o ExpandReplacement(title, <<"%s">>, before, after) \o after

\* titleText of both renderers
TitleText(config) ==
    IF Truthy(Get(config, "titleTemplate"))
    THEN replacePlaceholder(Get(config, "titleTemplate").v, Get(config, "title").v)
    ELSE Get(config, "title").v

RobotsContent_stringFirst(config) ==
    LET noindex == Get(config, "noindex") = Bool(TRUE)
        nofollow == Get(config, "nofollow") = Bool(TRUE)
    IN IF Truthy(Get(config, "robots")) THEN Get(config, "robots")
       ELSE IF noindex /\ nofollow THEN Str(<<"noindex", ",", "nofollow">>)
       ELSE IF noindex THEN Str(<<"noindex">>)
       ELSE IF nofollow THEN Str(<<"nofollow">>)
       ELSE Undefined

\* robotsContent of both renderers
RobotsContent(config) ==
    LET noindex == Get(config, "noindex") = Bool(TRUE)
        nofollow == Get(config, "nofollow") = Bool(TRUE)
    IN IF noindex /\ nofollow THEN Str(<<"noindex", ",", "nofollow">>)
       ELSE IF noindex THEN Str(<<"noindex">>)
       ELSE IF nofollow THEN Str(<<"nofollow">>)
       ELSE Get(config, "robots")

(***************************************************************************)
(* The document head                                                       *)
(*   element: [id, tag, attrs: attribute name -> string, text]             *)
(*   pass state st: [head, added, nextId, upd]                             *)
(*     added: the effect's `added` array (ids, in push order)              *)
(*     upd:   ids of elements found by a selector and updated in place     *)
(***************************************************************************)
Ids(h) == {h[i].id : i \in DOMAIN h}

HasAttr(e, k, val) == k \in DOMAIN e.attrs /\ e.attrs[k] = val

HasAttrPrefix(e, k, p) == k \in DOMAIN e.attrs /\ IsPrefix(p, e.attrs[k])

\* head.querySelector(`${tag}[${key}="${val}"]`): index of the first match, 0 for null
querySelector(h, tag, key, val) ==
    LET hits == {i \in DOMAIN h : h[i].tag = tag /\ HasAttr(h[i], key, val)}
    IN IF hits = {} THEN 0 ELSE CHOOSE i \in hits : \A j \in hits : i <= j

\* document.querySelector('head > title')
queryTitle(h) ==
    LET hits == {i \in DOMAIN h : h[i].tag = "title"}
    IN IF hits = {} THEN 0 ELSE CHOOSE i \in hits : \A j \in hits : i <= j

\* head.querySelectorAll(sel).forEach(el => { if (added.includes(el)) return; head.removeChild(el) })
\* (nodes: the ids of the elements the selector matches)
clearCategory(st, nodes) ==
    [st EXCEPT !.head = SelectSeq(st.head, LAMBDA e : ~(e.id \in nodes /\ e.id \notin Range(st.added)))]

\* document.createElement + setAttribute... + head.appendChild(el) + added.push(el)
createElement_noPush(st, tag, attrs, text) ==
    [st EXCEPT !.head = Append(@, [id |-> st.nextId, tag |-> tag, attrs |-> attrs, text |-> text]),
               !.nextId = @ + 1]

createElement(st, tag, attrs, text) ==
    [st EXCEPT !.head = Append(@, [id |-> st.nextId, tag |-> tag, attrs |-> attrs, text |-> text]),
               !.added = Append(@, st.nextId),
               !.nextId = @ + 1]

upsertTag_alwaysCreate(st, tag, uniqueKey, uniqueValue, attrs) ==
    IF isServer THEN st
    ELSE createElement(st, tag, attrs @@ (uniqueKey :> uniqueValue), <<>>)

upsertTag_pushFound(st, tag, uniqueKey, uniqueValue, attrs) ==
    IF isServer THEN st
    ELSE LET idx == querySelector(st.head, tag, uniqueKey, uniqueValue)
         IN IF idx = 0
            THEN createElement(st, tag, attrs @@ (uniqueKey :> uniqueValue), <<>>)
            ELSE [st EXCEPT !.head[idx].attrs = attrs @@ @,
                            !.added = Append(@, st.head[idx].id),
                            !.upd = @ \cup {st.head[idx].id}]

upsertTag_keepFound(st, tag, uniqueKey, uniqueValue, attrs) ==
    IF isServer THEN st
    ELSE LET idx == querySelector(st.head, tag, uniqueKey, uniqueValue)
         IN IF idx = 0
            THEN createElement(st, tag, attrs @@ (uniqueKey :> uniqueValue), <<>>)
            ELSE [st EXCEPT !.upd = @ \cup {st.head[idx].id}]

upsertTag(st, tag, uniqueKey, uniqueValue, attrs) ==
    IF isServer THEN st
    ELSE LET idx == querySelector(st.head, tag, uniqueKey, uniqueValue)
         IN IF idx = 0
            THEN createElement(st, tag, attrs @@ (uniqueKey :> uniqueValue), <<>>)
            ELSE [st EXCEPT !.head[idx].attrs = attrs @@ @,
                            !.upd = @ \cup {st.head[idx].id}]

addMeta(st, uniqueKey, uniqueValue, content) ==
    IF ~Truthy(content) THEN st
    ELSE upsertTag(st, "meta", uniqueKey, uniqueValue,
                   (uniqueKey :> uniqueValue) @@ ("content" :> ToStr(content)))

addLink(st, rel, href, extraAttrs) ==
    IF ~Truthy(href) THEN st
    ELSE upsertTag(st, "link", "rel", rel,
                   extraAttrs @@ ("rel" :> rel) @@ ("href" :> ToStr(href)))

NoAttrs == <<>>

(***************************************************************************)
(* SeoTags: the body of the effect, section by section                     *)
(***************************************************************************)
\* 1) Title tag
TitleStep(st, config) ==
    IF ~Truthy(Get(config, "title")) THEN st
    ELSE LET idx == queryTitle(st.head)
             st1 == IF idx = 0 THEN createElement(st, "title", NoAttrs, <<>>)
                    ELSE [st EXCEPT !.upd = @ \cup {st.head[idx].id}]
             at == IF idx = 0 THEN Len(st1.head) ELSE idx
         IN [st1 EXCEPT !.head[at].text = TitleText(config)]

\* 2) Core meta & link
RECURSIVE NameMetas(_, _, _)
NameMetas(st, config, fields) ==
    IF fields = <<>> THEN st
    ELSE LET val == Get(config, Head(fields)[1])
         IN NameMetas(IF Truthy(val) THEN addMeta(st, "name", <<Head(fields)[2]>>, val) ELSE st,
                      config, Tail(fields))

CoreStep(st, config) ==
    LET st1 == NameMetas(st, config, << <<"description", "description">> >>)
        robotsContent == RobotsContent(config)
        st2 == IF Truthy(robotsContent) THEN addMeta(st1, "name", <<"robots">>, robotsContent) ELSE st1
        st3 == NameMetas(st2, config,
                         << <<"viewport", "viewport">>, <<"themeColor", "theme-color">>,
                            <<"author", "author">>, <<"publisher", "publisher">>,
                            <<"language", "language">> >>)
    IN IF Truthy(Get(config, "canonical"))
       THEN addLink(st3, <<"canonical">>, Get(config, "canonical"), NoAttrs)
       ELSE st3

\* Site Verification
VerificationStep(st, config) ==
    IF ~Truthy(Get(config, "siteVerification")) THEN st
    ELSE NameMetas(st, Get(config, "siteVerification"),
                   << <<"google", "google-site-verification">>, <<"bing", "msvalidate.01">>,
                      <<"yandex", "yandex-verification">>, <<"pinterest", "p:domain_verify">> >>)

\* Facebook App ID
FacebookStep(st, config) ==
    IF Truthy(Get(Get(config, "facebook"), "appId"))
    THEN addMeta(st, "property", <<"fb:app_id">>, Get(Get(config, "facebook"), "appId"))
    ELSE st

\* 3) Language Alternates (hreflang)
RECURSIVE AlternateLinks(_, _, _)
AlternateLinks(st, alts, langs) ==
    IF langs = <<>> THEN st
    ELSE AlternateLinks(
             upsertTag(st, "link", "hreflang", <<Head(langs)>>,
                       ("rel" :> <<"alternate">>) @@ ("hreflang" :> <<Head(langs)>>)
                       @@ ("href" :> ToStr(alts.v[Head(langs)]))),
             alts, Tail(langs))

AlternatesStep(st, config) ==
    IF ~Truthy(Get(config, "languageAlternates")) THEN st
    ELSE AlternateLinks(st, Get(config, "languageAlternates"), Keys(Get(config, "languageAlternates")))

\* 4) Icons
IconsStep(st, config) ==
    LET icons == Get(config, "icons")
        st1 == IF Truthy(Get(icons, "icon")) THEN addLink(st, <<"icon">>, Get(icons, "icon"), NoAttrs) ELSE st
        st2 == IF Truthy(Get(icons, "apple")) THEN addLink(st1, <<"apple-touch-icon">>, Get(icons, "apple"), NoAttrs) ELSE st1
        st3 == IF Truthy(Get(icons, "manifest")) THEN addLink(st2, <<"manifest">>, Get(icons, "manifest"), NoAttrs) ELSE st2
        mask == Get(icons, "mask")
        color == IF Truthy(Get(mask, "color")) THEN ToStr(Get(mask, "color")) ELSE <<"#000000">>
    IN IF ~Truthy(icons) THEN st
       ELSE IF Truthy(mask) THEN addLink(st3, <<"mask-icon">>, Get(mask, "url"), "color" :> color)
       ELSE st3

\* 5) OpenGraph
RECURSIVE OgImages(_, _)
OgImages(st, imgs) ==
    IF imgs = <<>> THEN st
    ELSE LET img == Head(imgs)
             st1 == addMeta(st, "property", <<"og:", "image">>, Get(img, "url"))
             st2 == IF Truthy(Get(img, "alt"))
                    THEN addMeta(st1, "property", <<"og:", "image", ":", "alt">>, Get(img, "alt")) ELSE st1
             st3 == IF Truthy(Get(img, "width"))
                    THEN addMeta(st2, "property", <<"og:", "image", ":", "width">>, Str(ToStr(Get(img, "width")))) ELSE st2
             st4 == IF Truthy(Get(img, "height"))
                    THEN addMeta(st3, "property", <<"og:", "image", ":", "height">>, Str(ToStr(Get(img, "height")))) ELSE st3
             st5 == IF Truthy(Get(img, "type"))
                    THEN addMeta(st4, "property", <<"og:", "image", ":", "type">>, Get(img, "type")) ELSE st4
         IN OgImages(st5, Tail(imgs))

RECURSIVE OgArrayItems(_, _, _, _, _)
OgArrayItems(st, key, nestedKey, prefix, items) ==
    IF items = <<>> THEN st
    ELSE LET item == Head(items)
             st1 == IF item.t = "object"
                    THEN IF key = "video" /\ nestedKey = "actors"
                         THEN LET sa == addMeta(st, "property", prefix \o <<":", "actor">>, Get(item, "actor"))
                              IN IF Truthy(Get(item, "role"))
                                 THEN addMeta(sa, "property", prefix \o <<":", "actor", ":", "role">>, Get(item, "role"))
                                 ELSE sa
                         ELSE st
                    ELSE addMeta(st, "property", prefix \o <<":", nestedKey>>, Str(ToStr(item)))
         IN OgArrayItems(st1, key, nestedKey, prefix, Tail(items))

RECURSIVE OgNested(_, _, _, _)
OgNested(st, key, valObj, nestedKeys) ==
    IF nestedKeys = <<>> THEN st
    ELSE LET nestedKey == Head(nestedKeys)
             nestedVal == valObj.v[nestedKey]
             prefix == <<"og:", key>>
             st1 == IF ~Truthy(nestedVal) THEN st
                    ELSE IF nestedVal.t = "array"
                    THEN OgArrayItems(
                             clearCategory(st, {e.id : e \in {x \in Range(st.head) : x.tag = "meta"
                                                  /\ HasAttr(x, "property", prefix \o <<":", nestedKey>>)}}),
                             key, nestedKey, prefix, nestedVal.v)
                    ELSE addMeta(st, "property", prefix \o <<":", nestedKey>>, Str(ToStr(nestedVal)))
         IN OgNested(st1, key, valObj, Tail(nestedKeys))

RECURSIVE OgKeys(_, _, _)
OgKeys(st, og, keys) ==
    IF keys = <<>> THEN st
    ELSE LET key == Head(keys)
             val == og.v[key]
             st1 == IF ~Truthy(val) THEN st
                    ELSE IF key = "images" /\ val.t = "array"
                    THEN OgImages(
                             clearCategory(st, {e.id : e \in {x \in Range(st.head) : x.tag = "meta"
                                                  /\ HasAttrPrefix(x, "property", <<"og:", "image">>)}}),
                             val.v)
                    ELSE IF val.t = "object"
                    THEN OgNested(st, key, val, Keys(val))
                    ELSE addMeta(st, "property", <<"og:", key>>, Str(ToStr(val)))
         IN OgKeys(st1, og, Tail(keys))

OpenGraphStep(st, config) ==
    IF ~Truthy(Get(config, "openGraph")) THEN st
    ELSE OgKeys(st, Get(config, "openGraph"), Keys(Get(config, "openGraph")))

\* 6) Twitter
RECURSIVE TwitterKeys(_, _, _)
TwitterKeys(st, tw, keys) ==
    IF keys = <<>> THEN st
    ELSE LET key == Head(keys)
             val == tw.v[key]
             st1 == IF ~Truthy(val) THEN st
                    ELSE IF key = "imageAlt"
                    THEN addMeta(st, "name", <<"twitter:", "image", ":", "alt">>, Str(ToStr(val)))
                    ELSE addMeta(st, "name", <<"twitter:", key>>, Str(ToStr(val)))
         IN TwitterKeys(st1, tw, Tail(keys))

TwitterStep(st, config) ==
    IF ~Truthy(Get(config, "twitter")) THEN st
    ELSE TwitterKeys(st, Get(config, "twitter"), Keys(Get(config, "twitter")))

\* 7) Structured Data
IsStructuredScript(e) ==
    e.tag = "script" /\ HasAttr(e, "type", <<"application/ld+json">>)
    /\ HasAttrPrefix(e, "data-metafy", <<"structured-">>)

RECURSIVE StructuredScripts(_, _, _)
StructuredScripts(st, objs, i) ==
    IF i >= Len(objs) THEN st
    ELSE StructuredScripts(
             createElement(st, "script",
                           ("type" :> <<"application/ld+json">>)
                           @@ ("data-metafy" :> <<"structured-", ToString(i)>>),
                           JSONstringify(objs[i + 1])),
             objs, i + 1)

StructuredDataStep(st, config) ==
    LET sd == Get(config, "structuredData")
    IN IF sd.t = "array" /\ Len(sd.v) # 0
       THEN StructuredScripts(clearCategory(st, {e.id : e \in {x \in Range(st.head) : IsStructuredScript(x)}}), sd.v, 0)
       ELSE st

\* 8) Extras
IsExtraMeta(e) == e.tag = "meta" /\ HasAttrPrefix(e, "data-metafy", <<"extra-meta">>)

IsExtraLink(e) == e.tag = "link" /\ HasAttrPrefix(e, "data-metafy", <<"extra-link">>)

RECURSIVE ExtraMetas(_, _, _)
ExtraMetas(st, xs, i) ==
    IF i >= Len(xs) THEN st
    ELSE LET x == xs[i + 1]
             ident == IF Truthy(Get(x, "name")) THEN "name" :> ToStr(Get(x, "name"))
                      ELSE IF Truthy(Get(x, "property")) THEN "property" :> ToStr(Get(x, "property"))
                      ELSE NoAttrs
         IN ExtraMetas(
                createElement(st, "meta",
                              ident @@ ("content" :> ToStr(Get(x, "content")))
                              @@ ("data-metafy" :> <<"extra-meta", "-", ToString(i)>>),
                              <<>>),
                xs, i + 1)

RECURSIVE ExtraLinks(_, _, _)
ExtraLinks(st, xs, i) ==
    IF i >= Len(xs) THEN st
    ELSE LET x == xs[i + 1]
         IN ExtraLinks(
                createElement(st, "link",
                              ("data-metafy" :> <<"extra-link", "-", ToString(i)>>)
                              @@ [k \in DOMAIN x.v |-> ToStr(x.v[k])],
                              <<>>),
                xs, i + 1)

ExtrasStep(st, config) ==
    LET st0 == clearCategory(st, {e.id : e \in {x \in Range(st.head) : IsExtraMeta(x)}})
        st1 == clearCategory(st0, {e.id : e \in {x \in Range(st0.head) : IsExtraLink(x)}})
        st2 == IF Get(config, "extraMeta").t = "array"
               THEN ExtraMetas(st1, Get(config, "extraMeta").v, 0) ELSE st1
    IN IF Get(config, "extraLinks").t = "array"
       THEN ExtraLinks(st2, Get(config, "extraLinks").v, 0) ELSE st2

\* the whole pass: the effect body from `const head = document.head` to the extras
Pass(h, nid, config) ==
    LET st0 == [head |-> h, added |-> <<>>, nextId |-> nid, upd |-> {}]
    IN ExtrasStep(
         StructuredDataStep(
           TwitterStep(
             OpenGraphStep(
               IconsStep(
                 AlternatesStep(
                   FacebookStep(
                     VerificationStep(
                       CoreStep(
                         TitleStep(st0, config), config), config), config), config), config),
               config), config), config), config)

\* the cleanup the effect returns: added.forEach(el => head.contains(el) && head.removeChild(el))
Cleanup(h, added) == SelectSeq(h, LAMBDA e : e.id \notin Range(added))

(***************************************************************************)
(* utils.escapeHtml and generateSeoMarkup                                  *)
(*   a tag of the markup: [tag, attrs: sequence of <<name, escaped value>>,*)
(*   text: the characters between the start and the end tag]               *)
(***************************************************************************)
RECURSIVE ReplaceAll(_, _, _)
ReplaceAll(s, ch, by) ==
    IF s = <<>> THEN <<>>
    ELSE (IF Head(s) = ch THEN by ELSE <<Head(s)>>) \o ReplaceAll(Tail(s), ch, by)

escapeHtml_ampLast(str) ==
    IF ~Truthy(str) THEN <<>>
    ELSE ReplaceAll(
           ReplaceAll(
             ReplaceAll(
               ReplaceAll(
                 ReplaceAll(ToStr(str), "<", <<"&", "lt;">>),
                 ">", <<"&", "gt;">>),
               "\"", <<"&", "quot;">>),
             "'", <<"&", "#x27;">>),
           "&", <<"&", "amp;">>)

escapeHtml(str) ==
    IF ~Truthy(str) THEN <<>>
    ELSE ReplaceAll(
           ReplaceAll(
             ReplaceAll(
               ReplaceAll(
                 ReplaceAll(ToStr(str), "&", <<"&", "amp;">>),
                 "<", <<"&", "lt;">>),
               ">", <<"&", "gt;">>),
             "\"", <<"&", "quot;">>),
           "'", <<"&", "#x27;">>)

Tag(tag, attrs, text) == [tag |-> tag, attrs |-> attrs, text |-> text]

\* m(attrs): attrs is a sequence of <<name, value>>
m(attrs) == Tag("meta", [k \in DOMAIN attrs |-> <<attrs[k][1], escapeHtml(attrs[k][2])>>], <<>>)

\* l(rel, href, extraAttrs): extraAttrs is an object of the configuration
l(rel, href, extraAttrs) ==
    LET ks == Keys(extraAttrs)
    IN Tag("link",
           << <<"rel", escapeHtml(rel)>>, <<"href", escapeHtml(href)>> >>
           \o [k \in DOMAIN ks |-> <<ks[k], escapeHtml(extraAttrs.v[ks[k]])>>],
           <<>>)

\* tags.push(m({ name, content })) for each field of `fields` that is truthy
RECURSIVE MarkupNameMetas(_, _)
MarkupNameMetas(config, fields) ==
    IF fields = <<>> THEN <<>>
    ELSE LET val == Get(config, Head(fields)[1])
         IN (IF Truthy(val)
             THEN <<m(<< <<"name", Str(<<Head(fields)[2]>>)>>, <<"content", val>> >>)>>
             ELSE <<>>)
            \o MarkupNameMetas(config, Tail(fields))

PropertyMeta(property, content) ==
    m(<< <<"property", Str(property)>>, <<"content", content>> >>)

MarkupTitle(config) ==
    IF Truthy(Get(config, "title"))
    THEN <<Tag("title", <<>>, escapeHtml(Str(TitleText(config))))>>
    ELSE <<>>

MarkupCore(config) ==
    LET robotsContent == RobotsContent(config)
    IN MarkupNameMetas(config, << <<"description", "description">> >>)
       \o (IF Truthy(robotsContent)
           THEN <<m(<< <<"name", Str(<<"robots">>)>>, <<"content", robotsContent>> >>)>>
           ELSE <<>>)
       \o MarkupNameMetas(config, << <<"viewport", "viewport">>, <<"themeColor", "theme-color">> >>)
       \o (IF Truthy(Get(config, "canonical"))
           THEN <<l(Str(<<"canonical">>), Get(config, "canonical"), EmptyObj)>>
           ELSE <<>>)
       \o MarkupNameMetas(config, << <<"author", "author">>, <<"publisher", "publisher">>,
                                     <<"language", "language">> >>)

MarkupVerification(config) ==
    IF ~Truthy(Get(config, "siteVerification")) THEN <<>>
    ELSE MarkupNameMetas(Get(config, "siteVerification"),
                         << <<"google", "google-site-verification">>, <<"bing", "msvalidate.01">>,
                            <<"yandex", "yandex-verification">>, <<"pinterest", "p:domain_verify">> >>)

MarkupFacebook(config) ==
    IF Truthy(Get(Get(config, "facebook"), "appId"))
    THEN <<PropertyMeta(<<"fb:app_id">>, Get(Get(config, "facebook"), "appId"))>>
    ELSE <<>>

MarkupAlternates(config) ==
    LET alts == Get(config, "languageAlternates")
        langs == Keys(alts)
    IN IF ~Truthy(alts) THEN <<>>
       ELSE [k \in DOMAIN langs |->
                Tag("link", << <<"rel", <<"alternate">>>>,
                               <<"hreflang", escapeHtml(Str(<<langs[k]>>))>>,
                               <<"href", escapeHtml(alts.v[langs[k]])>> >>, <<>>)]

MarkupIcons(config) ==
    LET icons == Get(config, "icons")
        mask == Get(icons, "mask")
        color == IF Truthy(Get(mask, "color")) THEN Get(mask, "color") ELSE Str(<<"#000000">>)
    IN IF ~Truthy(icons) THEN <<>>
       ELSE (IF Truthy(Get(icons, "icon"))
             THEN <<l(Str(<<"icon">>), Get(icons, "icon"), EmptyObj)>> ELSE <<>>)
            \o (IF Truthy(Get(icons, "apple"))
                THEN <<l(Str(<<"apple-touch-icon">>), Get(icons, "apple"), EmptyObj)>> ELSE <<>>)
            \o (IF Truthy(mask)
                THEN <<l(Str(<<"mask-icon">>), Get(mask, "url"), Obj("color" :> color))>> ELSE <<>>)
            \o (IF Truthy(Get(icons, "manifest"))
                THEN <<l(Str(<<"manifest">>), Get(icons, "manifest"), EmptyObj)>> ELSE <<>>)

RECURSIVE MarkupOgImages(_)
MarkupOgImages(imgs) ==
    IF imgs = <<>> THEN <<>>
    ELSE LET img == Head(imgs)
         IN <<PropertyMeta(<<"og:", "image">>, Get(img, "url"))>>
            \o (IF Truthy(Get(img, "alt"))
                THEN <<PropertyMeta(<<"og:", "image", ":", "alt">>, Get(img, "alt"))>> ELSE <<>>)
            \o (IF Truthy(Get(img, "width"))
                THEN <<PropertyMeta(<<"og:", "image", ":", "width">>, Str(ToStr(Get(img, "width"))))>> ELSE <<>>)
            \o (IF Truthy(Get(img, "height"))
                THEN <<PropertyMeta(<<"og:", "image", ":", "height">>, Str(ToStr(Get(img, "height"))))>> ELSE <<>>)
            \o (IF Truthy(Get(img, "type"))
                THEN <<PropertyMeta(<<"og:", "image", ":", "type">>, Get(img, "type"))>> ELSE <<>>)
            \o MarkupOgImages(Tail(imgs))

RECURSIVE MarkupOgArrayItems(_, _, _, _)
MarkupOgArrayItems(key, nestedKey, prefix, items) ==
    IF items = <<>> THEN <<>>
    ELSE LET item == Head(items)
         IN (IF item.t = "object"
             THEN IF key = "video" /\ nestedKey = "actors"
                  THEN <<PropertyMeta(prefix \o <<":", "actor">>, Get(item, "actor"))>>
                       \o (IF Truthy(Get(item, "role"))
                           THEN <<PropertyMeta(prefix \o <<":", "actor", ":", "role">>, Get(item, "role"))>>
                           ELSE <<>>)
                  ELSE <<>>
             ELSE <<PropertyMeta(prefix \o <<":", nestedKey>>, Str(ToStr(item)))>>)
            \o MarkupOgArrayItems(key, nestedKey, prefix, Tail(items))

RECURSIVE MarkupOgNested(_, _, _)
MarkupOgNested(key, valObj, nestedKeys) ==
    IF nestedKeys = <<>> THEN <<>>
    ELSE LET nestedKey == Head(nestedKeys)
             nestedVal == valObj.v[nestedKey]
             prefix == <<"og:", key>>
         IN (IF ~Truthy(nestedVal) THEN <<>>
             ELSE IF nestedVal.t = "array"
             THEN MarkupOgArrayItems(key, nestedKey, prefix, nestedVal.v)
             ELSE <<PropertyMeta(prefix \o <<":", nestedKey>>, Str(ToStr(nestedVal)))>>)
            \o MarkupOgNested(key, valObj, Tail(nestedKeys))

RECURSIVE MarkupOgKeys(_, _)
MarkupOgKeys(og, keys) ==
    IF keys = <<>> THEN <<>>
    ELSE LET key == Head(keys)
             val == og.v[key]
         IN (IF ~Truthy(val) THEN <<>>
             ELSE IF key = "images" /\ val.t = "array" THEN MarkupOgImages(val.v)
             ELSE IF val.t = "object" THEN MarkupOgNested(key, val, Keys(val))
             ELSE <<PropertyMeta(<<"og:", key>>, Str(ToStr(val)))>>)
            \o MarkupOgKeys(og, Tail(keys))

MarkupOpenGraph(config) ==
    IF ~Truthy(Get(config, "openGraph")) THEN <<>>
    ELSE MarkupOgKeys(Get(config, "openGraph"), Keys(Get(config, "openGraph")))

RECURSIVE MarkupTwitterKeys(_, _)
MarkupTwitterKeys(tw, keys) ==
    IF keys = <<>> THEN <<>>
    ELSE LET key == Head(keys)
             val == tw.v[key]
             name == IF key = "imageAlt" THEN <<"twitter:", "image", ":", "alt">>
                     ELSE <<"twitter:", key>>
         IN (IF Truthy(val)
             THEN <<m(<< <<"name", Str(name)>>, <<"content", Str(ToStr(val))>> >>)>>
             ELSE <<>>)
            \o MarkupTwitterKeys(tw, Tail(keys))

MarkupTwitter(config) ==
    IF ~Truthy(Get(config, "twitter")) THEN <<>>
    ELSE MarkupTwitterKeys(Get(config, "twitter"), Keys(Get(config, "twitter")))

RECURSIVE MarkupExtraMetas(_)
MarkupExtraMetas(xs) ==
    IF xs = <<>> THEN <<>>
    ELSE LET x == Head(xs)
         IN (IF Truthy(Get(x, "name"))
             THEN <<m(<< <<"name", Get(x, "name")>>, <<"content", Get(x, "content")>> >>)>>
             ELSE IF Truthy(Get(x, "property"))
             THEN <<m(<< <<"property", Get(x, "property")>>, <<"content", Get(x, "content")>> >>)>>
             ELSE <<>>)
            \o MarkupExtraMetas(Tail(xs))

\* const { rel, href, ...rest } = x
RestOfLink(x) == Obj([k \in DOMAIN x.v \ {"rel", "href"} |-> x.v[k]])

MarkupExtras(config) ==
    LET xm == Get(config, "extraMeta")
        xl == Get(config, "extraLinks")
    IN (IF xm.t = "array" THEN MarkupExtraMetas(xm.v) ELSE <<>>)
       \o (IF xl.t = "array"
           THEN [k \in DOMAIN xl.v |-> l(Get(xl.v[k], "rel"), Get(xl.v[k], "href"), RestOfLink(xl.v[k]))]
           ELSE <<>>)

MarkupStructuredData_escaped(config) ==
    LET sd == Get(config, "structuredData")
    IN IF sd.t = "array" /\ Len(sd.v) # 0
       THEN [k \in DOMAIN sd.v |->
                Tag("script", << <<"type", <<"application/ld+json">>>> >>,
                    escapeHtml(Str(JSONstringify(sd.v[k]))))]
       ELSE <<>>

MarkupStructuredData(config) ==
    LET sd == Get(config, "structuredData")
    IN IF sd.t = "array" /\ Len(sd.v) # 0
       THEN [k \in DOMAIN sd.v |->
                Tag("script", << <<"type", <<"application/ld+json">>>> >>, JSONstringify(sd.v[k]))]
       ELSE <<>>

\* the array `tags` of generateSeoMarkup, before tags.join('\n')
generateSeoMarkup(config) ==
    MarkupTitle(config) \o MarkupCore(config) \o MarkupVerification(config)
    \o MarkupFacebook(config) \o MarkupAlternates(config) \o MarkupIcons(config)
    \o MarkupOpenGraph(config) \o MarkupTwitter(config) \o MarkupExtras(config)
    \o MarkupStructuredData(config)

(***************************************************************************)
(* The browser parsing server-rendered markup into head elements           *)
(***************************************************************************)
Entities == ("amp;" :> "&") @@ ("lt;" :> "<") @@ ("gt;" :> ">") @@ ("quot;" :> "\"") @@ ("#x27;" :> "'")

\* character references are decoded in attribute values and in the title text
RECURSIVE unescapeHtml(_)
unescapeHtml(s) ==
    IF s = <<>> THEN <<>>
    ELSE IF Head(s) = "&" /\ Len(s) >= 2 /\ s[2] \in DOMAIN Entities
    THEN <<Entities[s[2]]>> \o unescapeHtml(Tail(Tail(s)))
    ELSE <<Head(s)>> \o unescapeHtml(Tail(s))

\* the attribute map of a parsed start tag (of a repeated attribute the first one counts)
RECURSIVE ParseAttrs(_)
ParseAttrs(attrs) ==
    IF attrs = <<>> THEN <<>>
    ELSE (Head(attrs)[1] :> unescapeHtml(Head(attrs)[2])) @@ ParseAttrs(Tail(attrs))

\* the head a browser builds from markup injected into <head>, elements numbered from 1
ParseMarkup(tags) ==
    [k \in DOMAIN tags |->
        [id |-> k, tag |-> tags[k].tag, attrs |-> ParseAttrs(tags[k].attrs),
         text |-> IF tags[k].tag = "script" THEN tags[k].text ELSE unescapeHtml(tags[k].text)]]

(***************************************************************************)
(* The effect of one <SeoTags> instance                                    *)
(***************************************************************************)
NoCleanup == [reg |-> FALSE, added |-> <<>>]

\* useEffect(() => { ... }): what one invocation leaves behind
\*   prev is prevConfigRef.current, (h, nid) the document before the call
RunEffect_noGuard(prev, config, h, nid) ==
    LET skipped == [head |-> h, nextId |-> nid, prevConfigRef |-> prev,
                    cleanup |-> NoCleanup, ran |-> FALSE, upd |-> {}]
        configString == JSONstringify(config)
        st == Pass(h, nid, config)
    IN IF configString = prev THEN skipped
       ELSE [head |-> st.head, nextId |-> st.nextId, prevConfigRef |-> configString,
             cleanup |-> [reg |-> TRUE, added |-> st.added], ran |-> TRUE, upd |-> st.upd]

RunEffect_noSkip(prev, config, h, nid) ==
    LET skipped == [head |-> h, nextId |-> nid, prevConfigRef |-> prev,
                    cleanup |-> NoCleanup, ran |-> FALSE, upd |-> {}]
        configString == JSONstringify(config)
        st == Pass(h, nid, config)
    IN IF isServer THEN skipped
       ELSE [head |-> st.head, nextId |-> st.nextId, prevConfigRef |-> configString,
             cleanup |-> [reg |-> TRUE, added |-> st.added], ran |-> TRUE, upd |-> st.upd]

RunEffect(prev, config, h, nid) ==
    LET skipped == [head |-> h, nextId |-> nid, prevConfigRef |-> prev,
                    cleanup |-> NoCleanup, ran |-> FALSE, upd |-> {}]
        configString == JSONstringify(config)
        st == Pass(h, nid, config)
    IN IF isServer THEN skipped
       ELSE IF configString = prev THEN skipped
       ELSE [head |-> st.head, nextId |-> st.nextId, prevConfigRef |-> configString,
             cleanup |-> [reg |-> TRUE, added |-> st.added], ran |-> TRUE, upd |-> st.upd]

\* the dependency array [JSON.stringify(config)]: React re-runs the effect when it changes
DepsChanged_byValue(oldConfig, newConfig) == oldConfig # newConfig

DepsChanged(oldConfig, newConfig) == JSONstringify(oldConfig) # JSONstringify(newConfig)

RunCleanup_none(i, h) == h

\* React runs the cleanup of the previous invocation, if that invocation returned one
RunCleanup(i, h) == IF inst[i].cleanup.reg THEN Cleanup(h, inst[i].cleanup.added) ELSE h

NoCall == [name |-> "none"]

(***************************************************************************)
(* Inputs: the props the component is rendered with, the provider defaults *)
(* and the heads the page starts with                                      *)
(***************************************************************************)
Image(url) == Obj("url" :> Str(url))

ImageAlt(url, alt) == Obj(("url" :> Str(url)) @@ ("alt" :> Str(alt)))

\* props shared by every instance
CommonProps ==
    { Obj(("title" :> Str(<<"B">>)) @@ ("description" :> Str(<<"d2">>))
          @@ ("openGraph" :> Obj("images" :> Arr(<<Image(<<"a.png">>)>>)))),
      Obj(("description" :> Str(<<"d2">>))
          @@ ("extraMeta" :> Arr(<<Obj(("name" :> Str(<<"description">>)) @@ ("content" :> Str(<<"x">>)))>>))
          @@ ("extraLinks" :> Arr(<<Obj(("rel" :> Str(<<"preload">>)) @@ ("href" :> Str(<<"/f">>)))>>))
          @@ ("structuredData" :> Arr(<<Obj("@type" :> Str(<<"Thing">>))>>))
          @@ ("openGraph" :> Obj("article" :> Obj("tags" :> Arr(<<Str(<<"t1">>), Str(<<"t2">>)>>))))),
      Obj("description" :> Str(<<"d1">>)) }

\* props only the first instance is rendered with
PropsSet ==
    CommonProps \cup
    { Obj(("title" :> Str(<<"A">>)) @@ ("description" :> Str(<<"d1">>))),
      Obj(("description" :> Str(<<"d1">>))
          @@ ("openGraph" :> Obj("images" :> Arr(<<ImageAlt(<<"b.png">>, <<"alt">>)>>)))),
      Obj(("canonical" :> Str(<<"/p">>))
          @@ ("openGraph" :> Obj(("title" :> Str(<<"OG">>))
                                 @@ ("images" :> Arr(<<Image(<<"a.png">>), Image(<<"b.png">>)>>))))),
      Obj(("description" :> Str(<<"d1">>)) @@ ("title" :> Undefined)) }

PropsOf(i) == IF i = 1 THEN PropsSet ELSE CommonProps

DefaultsSet ==
    { NoProvider,
      Obj(("titleTemplate" :> Str(<<"%s", " | Site">>))
          @@ ("twitter" :> Obj("site" :> Str(<<"@x">>)))) }

Element(id, tag, attrs, text) == [id |-> id, tag |-> tag, attrs |-> attrs, text |-> text]

\* a page with statically authored head tags
AuthoredHead ==
    << Element(1, "title", NoAttrs, <<"Static">>),
       Element(2, "meta", ("name" :> <<"description">>) @@ ("content" :> <<"static">>), <<>>),
       Element(3, "meta", ("property" :> <<"og:", "image">>) @@ ("content" :> <<"s.png">>), <<>>) >>

\* a page that was authored with the same tag twice
DuplicateHead ==
    << Element(1, "meta", ("name" :> <<"description">>) @@ ("content" :> <<"static">>), <<>>),
       Element(2, "meta", ("name" :> <<"description">>) @@ ("content" :> <<"static2">>), <<>>) >>

HeadSet == { <<>>, AuthoredHead, DuplicateHead }

NewInstance ==
    [status |-> "unmounted", props |-> EmptyObj, config |-> EmptyObj,
     prevConfigRef |-> <<>>, cleanup |-> NoCleanup, seen |-> {}]

(***************************************************************************)
(* Lifecycle of the instances                                              *)
(***************************************************************************)
Init ==
    /\ head \in HeadSet
    /\ nextId = Len(head) + 1
    /\ isServer = FALSE
    /\ defaults \in DefaultsSet
    /\ inst = [i \in Instances |-> NewInstance]
    /\ owner = [id \in Ids(head) |-> 0]
    /\ updated = [i \in Instances |-> {}]
    /\ last = [kind |-> "init", i |-> 0, ran |-> FALSE, from |-> EmptyObj, n |-> 0]
    /\ fn = NoCall

\* the bookkeeping every invocation of the effect shares
Commit(i, kind, props, config, r) ==
    /\ head' = r.head
    /\ nextId' = r.nextId
    /\ inst' = [inst EXCEPT ![i].status = "mounted", ![i].props = props, ![i].config = config,
                            ![i].prevConfigRef = r.prevConfigRef, ![i].cleanup = r.cleanup,
                            ![i].seen = IF kind = "mount" THEN Ids(head) ELSE @]
    /\ owner' = [id \in nextId .. (r.nextId - 1) |-> i] @@ owner
    /\ updated' = [updated EXCEPT ![i] = @ \cup r.upd]
    /\ last' = [kind |-> kind, i |-> i, ran |-> r.ran, from |-> inst[i].config, n |-> last.n + 1]
    /\ UNCHANGED <<isServer, defaults, fn>>

\* first render of instance i with props p: render, then the effect runs
Mount(i, p) ==
    /\ inst[i].status = "unmounted"
    /\ last.n < MaxSteps
    /\ LET config == mergeConfig(defaults, p)
       IN Commit(i, "mount", p, config, RunEffect(inst[i].prevConfigRef, config, head, nextId))

\* re-render of instance i with new props p whose dependency changed:
\* the previous cleanup runs, then the effect
Update(i, p) ==
    /\ inst[i].status = "mounted"
    /\ last.n < MaxSteps
    /\ p # inst[i].props
    /\ LET config == mergeConfig(defaults, p)
       IN /\ DepsChanged(inst[i].config, config)
          /\ Commit(i, "update", p, config,
                    RunEffect(inst[i].prevConfigRef, config, RunCleanup(i, head), nextId))

\* re-render of instance i with new props p whose dependency is unchanged: no effect runs
Rerender(i, p) ==
    /\ inst[i].status = "mounted"
    /\ last.n < MaxSteps
    /\ p # inst[i].props
    /\ LET config == mergeConfig(defaults, p)
       IN /\ ~DepsChanged(inst[i].config, config)
          /\ inst' = [inst EXCEPT ![i].props = p, ![i].config = config]
          /\ last' = [kind |-> "rerender", i |-> i, ran |-> FALSE, from |-> inst[i].config, n |-> last.n + 1]
    /\ UNCHANGED <<head, nextId, isServer, defaults, owner, updated, fn>>

\* instance i leaves the tree: the cleanup of its last effect runs
Unmount(i) ==
    /\ inst[i].status = "mounted"
    /\ last.n < MaxSteps
    /\ head' = RunCleanup(i, head)
    /\ inst' = [inst EXCEPT ![i].status = "detached", ![i].cleanup = NoCleanup]
    /\ last' = [kind |-> "unmount", i |-> i, ran |-> FALSE, from |-> inst[i].config, n |-> last.n + 1]
    /\ UNCHANGED <<nextId, isServer, defaults, owner, updated, fn>>

Next ==
    \/ \E i \in Instances : \E p \in PropsOf(i) : Mount(i, p)
    \/ \E i \in Instances : \E p \in PropsOf(i) : Update(i, p)
    \/ \E i \in Instances : \E p \in PropsOf(i) : Rerender(i, p)
    \/ \E i \in Instances : Unmount(i)

Spec == Init /\ [][Next]_vars

(***************************************************************************)
(* A page whose head was rendered on the server by generateSeoMarkup and   *)
(* on which <SeoTags> instances then mount                                 *)
(***************************************************************************)
Call(name, args, result, done) == [name |-> name, args |-> args, result |-> result, done |-> done]

InitSSR ==
    /\ defaults \in DefaultsSet
    /\ \E p \in PropsSet :
           LET config == mergeConfig(defaults, p)
           IN fn = Call("generateSeoMarkup", config, generateSeoMarkup(config), TRUE)
    /\ head = ParseMarkup(fn.result)
    /\ nextId = Len(head) + 1
    /\ isServer = FALSE
    /\ inst = [i \in Instances |-> NewInstance]
    /\ owner = [id \in Ids(head) |-> 0]
    /\ updated = [i \in Instances |-> {}]
    /\ last = [kind |-> "init", i |-> 0, ran |-> FALSE, from |-> EmptyObj, n |-> 0]

SpecSSR == InitSSR /\ [][Next]_vars

(***************************************************************************)
(* A non-browser context: isServer is true. The component is rendered and  *)
(* its effect invoked as on the client, and upsertTag is called directly   *)
(***************************************************************************)
InitServer ==
    /\ head \in HeadSet
    /\ nextId = Len(head) + 1
    /\ isServer = TRUE
    /\ defaults \in DefaultsSet
    /\ inst = [i \in Instances |-> NewInstance]
    /\ owner = [id \in Ids(head) |-> 0]
    /\ updated = [i \in Instances |-> {}]
    /\ last = [kind |-> "init", i |-> 0, ran |-> FALSE, from |-> EmptyObj, n |-> 0]
    /\ fn = NoCall

\* the arguments of the direct calls of upsertTag
UpsertArgs ==
    { <<"meta", "name", <<"description">>, ("name" :> <<"description">>) @@ ("content" :> <<"x">>)>>,
      <<"meta", "name", <<"description">>, ("name" :> <<"description">>) @@ ("content" :> <<"y">>)>>,
      <<"meta", "property", <<"og:", "title">>, ("property" :> <<"og:", "title">>) @@ ("content" :> <<"OG">>)>>,
      <<"link", "rel", <<"canonical">>, ("rel" :> <<"canonical">>) @@ ("href" :> <<"/p">>)>>,
      <<"link", "rel", <<"mask-icon">>,
        ("rel" :> <<"mask-icon">>) @@ ("href" :> <<"/k.svg">>) @@ ("color" :> <<"#000000">>)>>,
      <<"link", "hreflang", <<"en">>,
        ("rel" :> <<"alternate">>) @@ ("hreflang" :> <<"en">>) @@ ("href" :> <<"/en">>)>> }

\* upsertTag(head, tag, uniqueKey, uniqueValue, attrs, added) called with a fresh added array
CallUpsertTag ==
    \E a \in UpsertArgs :
        LET r == upsertTag([head |-> head, added |-> <<>>, nextId |-> nextId, upd |-> {}],
                           a[1], a[2], a[3], a[4])
        IN /\ head' = r.head
           /\ nextId' = r.nextId
           /\ fn' = Call("upsertTag", a, [added |-> r.added, upd |-> r.upd], TRUE)
           /\ UNCHANGED <<isServer, defaults, inst, owner, updated, last>>

NextServer == Next \/ CallUpsertTag

SpecServer == InitServer /\ [][NextServer]_vars

(***************************************************************************)
(* A page whose authored head holds nothing the engine manages, rendered   *)
(* under React's StrictMode: after the first invocation of an effect React *)
(* may run its cleanup and invoke it again with the same dependencies      *)
(***************************************************************************)
UnmanagedHead ==
    << Element(1, "meta", "charset" :> <<"utf-8">>, <<>>),
       Element(2, "link", ("rel" :> <<"stylesheet">>) @@ ("href" :> <<"/s.css">>), <<>>),
       Element(3, "script", "src" :> <<"/app.js">>, <<>>) >>

InitStrict ==
    /\ head = UnmanagedHead
    /\ nextId = Len(head) + 1
    /\ isServer = FALSE
    /\ defaults \in DefaultsSet
    /\ inst = [i \in Instances |-> NewInstance]
    /\ owner = [id \in Ids(head) |-> 0]
    /\ updated = [i \in Instances |-> {}]
    /\ last = [kind |-> "init", i |-> 0, ran |-> FALSE, from |-> EmptyObj, n |-> 0]
    /\ fn = NoCall

\* the cleanup of the last invocation runs, then the effect is invoked again
\* with the configuration it already has (prevConfigRef survives the cleanup)
Reinvoke(i) ==
    /\ inst[i].status = "mounted"
    /\ last.n < MaxSteps
    /\ Commit(i, "reinvoke", inst[i].props, inst[i].config,
              RunEffect(inst[i].prevConfigRef, inst[i].config, RunCleanup(i, head), nextId))

NextStrict == Next \/ \E i \in Instances : Reinvoke(i)

SpecStrict == InitStrict /\ [][NextStrict]_vars

(***************************************************************************)
(* upsertTag called directly in the browser                                *)
(***************************************************************************)
\* a page whose authored tags carry attributes the engine never sets, and an
\* extraMeta element an unmounted sibling instance left in the head
AttributedHead ==
    << Element(1, "meta", ("name" :> <<"description">>) @@ ("content" :> <<"static">>)
                          @@ ("lang" :> <<"en">>), <<>>),
       Element(2, "link", ("rel" :> <<"canonical">>) @@ ("href" :> <<"/old">>)
                          @@ ("hreflang" :> <<"en">>), <<>>),
       Element(3, "meta", ("property" :> <<"og:", "title">>) @@ ("content" :> <<"x">>)
                          @@ ("data-metafy" :> <<"extra-meta", "-", "0">>), <<>>) >>

InitUpsert ==
    /\ head \in HeadSet \cup {AttributedHead}
    /\ nextId = Len(head) + 1
    /\ isServer = FALSE
    /\ defaults = NoProvider
    /\ inst = [i \in Instances |-> NewInstance]
    /\ owner = [id \in Ids(head) |-> 0]
    /\ updated = [i \in Instances |-> {}]
    /\ last = [kind |-> "init", i |-> 0, ran |-> FALSE, from |-> EmptyObj, n |-> 0]
    /\ fn = NoCall

SpecUpsert == InitUpsert /\ [][CallUpsertTag]_vars

(***************************************************************************)
(* Single calls of the pure functions                                      *)
(***************************************************************************)
Restrict(f, S) == [k \in S \cap DOMAIN f |-> f[k]]

FullOverride ==
    ("title" :> Str(<<"B">>))
    @@ ("titleTemplate" :> Str(<<>>))
    @@ ("description" :> Undefined)
    @@ ("twitter" :> Obj(("card" :> Str(<<"summary">>)) @@ ("creator" :> Undefined)))
    @@ ("openGraph" :> Obj(("url" :> Str(<<"/u">>)) @@ ("images" :> Arr(<<Image(<<"b.png">>)>>))))
    @@ ("extraMeta" :> Arr(<<>>))

MergeOverrides ==
    {Obj(Restrict(FullOverride, S)) : S \in SUBSET DOMAIN FullOverride}
    \cup {Obj(("title" :> Str(<<"About">>)) @@ ("titleTemplate" :> Str(<<"%s", " - X">>)))}
    \cup {Obj(("title" :> Str(<<"About">>)) @@ ("titleTemplate" :> Undefined)),
          Obj("openGraph" :> Obj("article" :> Obj(("publishedTime" :> Str(<<"2024">>))
                                                  @@ ("tags" :> Arr(<<Str(<<"t2">>)>>))))),
          Obj(("openGraph" :> Obj("article" :> Obj("section" :> Str(<<"s2">>))))
              @@ ("structuredData" :> Arr(<<Obj("@type" :> Str(<<"Thing">>))>>))
              @@ ("extraLinks" :> Arr(<<>>)))}

MergeDefaults ==
    { NoProvider,
      EmptyObj,
      Obj(("title" :> Str(<<"A">>)) @@ ("twitter" :> Obj("site" :> Str(<<"@x">>)))),
      Obj(("titleTemplate" :> Str(<<"%s", " | Site">>))
          @@ ("description" :> Str(<<"dd">>))
          @@ ("twitter" :> Obj(("site" :> Str(<<"@x">>)) @@ ("creator" :> Str(<<"@c">>))))
          @@ ("openGraph" :> Obj(("title" :> Str(<<"OG">>)) @@ ("images" :> Arr(<<Image(<<"a.png">>)>>))))
          @@ ("extraMeta" :> Arr(<<Obj(("name" :> Str(<<"keywords">>)) @@ ("content" :> Str(<<"k">>)))>>))),
      Obj(("openGraph" :> Obj(("siteName" :> Str(<<"Site">>))
                              @@ ("article" :> Obj(("section" :> Str(<<"s1">>))
                                                   @@ ("tags" :> Arr(<<Str(<<"t1">>), Str(<<"t3">>)>>))))))
          @@ ("extraLinks" :> Arr(<<Obj(("rel" :> Str(<<"preload">>)) @@ ("href" :> Str(<<"/f">>)))>>))
          @@ ("structuredData" :> Arr(<<Obj("@type" :> Str(<<"Org">>))>>))) }

FullMarkupConfig ==
    ("title" :> Str(<<"T">>))
    @@ ("description" :> Str(<<"He said ", "\"", "hi", "\"", " ", "&", " ", "<", "left", ">">>))
    @@ ("viewport" :> Str(<<"width=device-width">>))
    @@ ("canonical" :> Str(<<"/p">>))
    @@ ("author" :> Str(<<"Ann">>))
    @@ ("language" :> Str(<<"en">>))
    @@ ("siteVerification" :> Obj("google" :> Str(<<"g1">>)))
    @@ ("languageAlternates" :> Obj(("en" :> Str(<<"/en">>)) @@ ("fr" :> Str(<<"/fr">>))))
    @@ ("icons" :> Obj(("icon" :> Str(<<"/i.ico">>)) @@ ("manifest" :> Str(<<"/m.json">>))
                       @@ ("mask" :> Obj("url" :> Str(<<"/k.svg">>)))))
    @@ ("openGraph" :> Obj(("title" :> Str(<<"OG">>))
                           @@ ("images" :> Arr(<<ImageAlt(<<"a.png">>, <<"alt">>), Image(<<"b.png">>)>>))))
    @@ ("twitter" :> Obj("card" :> Str(<<"summary">>)))
    @@ ("extraMeta" :> Arr(<<Obj(("name" :> Str(<<"keywords">>)) @@ ("content" :> Str(<<"k">>)))>>))
    @@ ("extraLinks" :> Arr(<<Obj(("rel" :> Str(<<"preload">>)) @@ ("href" :> Str(<<"/f">>)))>>))
    @@ ("structuredData" :> Arr(<<Obj("@type" :> Str(<<"Thing">>))>>))

\* the fields that are left out in turn
VariedFields == {"title", "canonical", "author", "icons", "openGraph", "extraMeta", "structuredData"}

MarkupConfigs ==
    {Obj(Restrict(FullMarkupConfig, (DOMAIN FullMarkupConfig \ VariedFields) \cup S)) :
        S \in SUBSET VariedFields}

\* titles and templates, with and without the placeholder and the characters
\* String.prototype.replace treats specially
TitleValues ==
    { Undefined, Str(<<>>), Str(<<"About">>), Str(<<"A", "$", "&", "B">>),
      Str(<<"US", "$", "$", "5">>), Str(<<"Q", "&", "A">>), Str(<<"50", "%s", " off">>) }

TemplateValues ==
    { Undefined, Str(<<>>), Str(<<"%s", " | Site">>), Str(<<"Site: ", "%s", " / ", "%s">>),
      Str(<<"Fixed">>) }

TitleConfigs ==
    {mergeConfig(Obj("titleTemplate" :> p), Obj("title" :> t)) : p \in TemplateValues, t \in TitleValues}

\* the robots string and the two flags, each absent, negative and positive
RobotsConfigs ==
    {Obj(Restrict(("robots" :> r) @@ ("noindex" :> ni) @@ ("nofollow" :> nf), S)) :
        r \in {Str(<<>>), Str(<<"index,follow">>)},
        ni \in {Bool(FALSE), Bool(TRUE)},
        nf \in {Bool(FALSE), Bool(TRUE)},
        S \in SUBSET {"robots", "noindex", "nofollow"}}

\* configurations with a field whose value is empty
EmptyValueConfigs ==
    { Obj(("description" :> Str(<<>>)) @@ ("canonical" :> Str(<<>>)) @@ ("author" :> Str(<<>>))
          @@ ("openGraph" :> Obj(("title" :> Str(<<>>)) @@ ("url" :> Str(<<"/u">>))))
          @@ ("twitter" :> Obj(("site" :> Str(<<>>)) @@ ("card" :> Str(<<"summary">>))))
          @@ ("icons" :> Obj(("icon" :> Str(<<>>)) @@ ("apple" :> Str(<<"/a.png">>))))),
      Obj("languageAlternates" :> Obj(("en" :> Str(<<"/en">>)) @@ ("fr" :> Str(<<>>)))),
      Obj("icons" :> Obj("mask" :> Obj(("url" :> Str(<<>>)) @@ ("color" :> Str(<<"red">>))))),
      Obj("openGraph" :> Obj("images" :> Arr(<<Image(<<>>)>>))),
      Obj("openGraph" :> Obj("video" :> Obj("actors" :> Arr(<<Obj(("actor" :> Str(<<>>)) @@ ("role" :> Str(<<"lead">>)))>>)))),
      Obj("extraMeta" :> Arr(<<Obj(("name" :> Str(<<"keywords">>)) @@ ("content" :> Str(<<>>)))>>)),
      Obj("extraLinks" :> Arr(<<Obj(("rel" :> Str(<<"preload">>)) @@ ("href" :> Str(<<>>)))>>)) }

\* the configurations both renderers are run on
RenderConfigs == TitleConfigs \cup RobotsConfigs \cup EmptyValueConfigs

\* values that hold the characters HTML treats specially
Quoted == Str(<<"He said ", "\"", "hi", "\"", " ", "&", " ", "<", "left", ">">>)

EscapeConfigs ==
    { Obj(("title" :> Str(<<"a", "<", "b", "'", "s">>)) @@ ("description" :> Quoted)
          @@ ("canonical" :> Str(<<"/p?a=1", "&", "b=", "'", "x", "'">>))),
      Obj(("title" :> Str(<<"x ", "&", "amp;", " y">>)) @@ ("titleTemplate" :> Str(<<"<", "%s", ">">>))
          @@ ("openGraph" :> Obj(("title" :> Quoted)
                                 @@ ("images" :> Arr(<<ImageAlt(<<"a.png?x", "&", "y">>, <<"\"", "alt", "\"">>)>>))))
          @@ ("twitter" :> Obj("site" :> Str(<<"<", "@x", ">">>)))),
      Obj(("languageAlternates" :> Obj("en" :> Str(<<"/en?q=", "\"", "x", "\"">>)))
          @@ ("icons" :> Obj(("icon" :> Str(<<"/i.ico?", "&">>))
                             @@ ("mask" :> Obj(("url" :> Str(<<"/k.svg">>)) @@ ("color" :> Str(<<"'", "red", "'">>))))))
          @@ ("extraMeta" :> Arr(<<Obj(("name" :> Str(<<"keywords">>)) @@ ("content" :> Quoted))>>))
          @@ ("extraLinks" :> Arr(<<Obj(("rel" :> Str(<<"preload">>)) @@ ("href" :> Str(<<"/f?a", "&", "b">>))
                                        @@ ("sizes" :> Str(<<"<", "16", ">">>)))>>))
          @@ ("structuredData" :> Arr(<<Obj("@type" :> Str(<<"<", "Thing", ">", " ", "&", " ", "'", "co", "'">>))>>))) }

\* lists of structured-data entries: none, one, several, nested
Thing == Obj("@type" :> Str(<<"Thing">>))

Org == Obj(("@context" :> Str(<<"https://schema.org">>)) @@ ("@type" :> Str(<<"Org">>))
           @@ ("name" :> Str(<<"A ", "&", " B ", "<", "i", ">">>))
           @@ ("tags" :> Arr(<<Str(<<"x">>), Num(2), Bool(TRUE)>>))
           @@ ("image" :> Obj("url" :> Str(<<"say ", "\"", "hi", "\"">>))))

StructuredConfigs ==
    {Obj(("description" :> Str(<<"d1">>)) @@ ("structuredData" :> Arr(sd))) :
        sd \in {<<>>, <<Thing>>, <<Thing, Org>>, <<Org, Thing>>, <<Thing, Thing>>}}

\* lists of images and of article tags with zero to three entries
ImageFull(url) ==
    Obj(("url" :> Str(url)) @@ ("alt" :> Str(<<"alt2">>)) @@ ("width" :> Num(800))
        @@ ("height" :> Num(600)) @@ ("type" :> Str(<<"image/png">>)))

ListConfigs ==
    {Obj("openGraph" :> Obj(("images" :> Arr(imgs)) @@ ("article" :> Obj("tags" :> Arr(tags))))) :
        imgs \in { <<>>, <<Image(<<"a.png">>)>>,
                   <<ImageAlt(<<"a.png">>, <<"alt">>), Image(<<"b.png">>)>>,
                   <<Image(<<"a.png">>), ImageFull(<<"b.png">>), Image(<<"c.png">>)>> },
        tags \in { <<>>, <<Str(<<"t1">>)>>, <<Str(<<"t1">>), Str(<<"t2">>)>> }}

\* the defaults of a provider and the props of a component as objects of
\* one heap, before mergeConfig is called on them
HeapCall(d, o) ==
    LET dflt == IF d = NoProvider THEN [heap |-> <<>>, ref |-> NoProvider] ELSE alloc(<<>>, d)
        config == alloc(dflt.heap, o)
    IN [name |-> "mergeConfigRef", args |-> <<dflt.ref, config.ref>>, before |-> config.heap,
        heap |-> config.heap, result |-> <<>>, done |-> FALSE]

InitFn ==
    /\ fn \in {Call("mergeConfig", <<d, o>>, <<>>, FALSE) : d \in MergeDefaults, o \in MergeOverrides}
           \cup {Call("generateSeoMarkup", c, <<>>, FALSE) :
                    c \in MarkupConfigs \cup RenderConfigs \cup EscapeConfigs \cup StructuredConfigs
                          \cup ListConfigs}
           \cup {Call("SeoTags", c, <<>>, FALSE) : c \in RenderConfigs \cup ListConfigs}
           \cup {HeapCall(d, o) : d \in MergeDefaults, o \in MergeOverrides}
    /\ head = <<>>
    /\ nextId = 1
    /\ isServer = FALSE
    /\ defaults = NoProvider
    /\ inst = [i \in Instances |-> NewInstance]
    /\ owner = <<>>
    /\ updated = [i \in Instances |-> {}]
    /\ last = [kind |-> "init", i |-> 0, ran |-> FALSE, from |-> EmptyObj, n |-> 0]

CallMergeConfig ==
    /\ fn.name = "mergeConfig" /\ ~fn.done
    /\ fn' = [fn EXCEPT !.result = mergeConfig(fn.args[1], fn.args[2]), !.done = TRUE]
    /\ UNCHANGED <<head, nextId, isServer, defaults, inst, owner, updated, last>>

CallGenerateSeoMarkup ==
    /\ fn.name = "generateSeoMarkup" /\ ~fn.done
    /\ fn' = [fn EXCEPT !.result = generateSeoMarkup(fn.args), !.done = TRUE]
    /\ UNCHANGED <<head, nextId, isServer, defaults, inst, owner, updated, last>>

\* <SeoTags {...config}/> rendered once, without a provider, in a document
\* whose head is empty: the result is the head its effect leaves
CallSeoTags ==
    /\ fn.name = "SeoTags" /\ ~fn.done
    /\ fn' = [fn EXCEPT !.result = RunEffect(<<>>, defaultMergeConfig(fn.args), <<>>, 1).head,
                        !.done = TRUE]
    /\ UNCHANGED <<head, nextId, isServer, defaults, inst, owner, updated, last>>

\* mergeConfig called once more on the same defaults and props objects
CallMergeConfigRef ==
    /\ fn.name = "mergeConfigRef" /\ Len(fn.result) < MaxMerges
    /\ LET merged == mergeConfigRef(fn.heap, fn.args[1], fn.args[2])
       IN fn' = [fn EXCEPT !.heap = merged.heap, !.result = Append(@, merged.ref), !.done = TRUE]
    /\ UNCHANGED <<head, nextId, isServer, defaults, inst, owner, updated, last>>

NextFn == CallMergeConfig \/ CallGenerateSeoMarkup \/ CallSeoTags \/ CallMergeConfigRef

SpecFn == InitFn /\ [][NextFn]_vars

(***************************************************************************)
(* Ownership and lifecycle properties of the reconciler                    *)
(***************************************************************************)
Mounted(i) == inst[i].status = "mounted"

Detached(i) == inst[i].status = "detached"

PassRan == last.kind \in {"mount", "update"} /\ last.ran

\* C1: a step of instance i (a pass or a cleanup) removes an element from the
\* head only if i created that element
C1_RemovesOnlyOwnElements ==
    [][\A k \in DOMAIN head :
          head[k].id \notin Ids(head') => owner[head[k].id] = last'.i]_vars

\* C2: once an instance is detached, no element that one of its passes created
\* is in the head
C2_NoCreatedElementAfterDetach ==
    \A i \in Instances :
        Detached(i) => \A k \in DOMAIN head : owner[head[k].id] # i

\* an instance is detached after a mount, a config change and an unmount in
\* which its passes created elements
C2_Witness ==
    \E i \in Instances :
        /\ Detached(i)
        /\ last.kind = "unmount" /\ last.i = i /\ last.n >= 3
        /\ \E id \in DOMAIN owner : owner[id] = i

\* ids that were in the head before the first pass of i and that i updated in
\* place without ever creating them
OnlyUpdated(i) == {id \in updated[i] \cap inst[i].seen : owner[id] # i}

\* C3 (as stated): every element that was in the head before the first pass of
\* an instance and that the instance only updated in place is in the head once
\* the instance is detached
C3_UpdatedElementSurvivesDetach ==
    \A i \in Instances : Detached(i) => OnlyUpdated(i) \subseteq Ids(head)

\* C3 (amended): every element authored in the page (created by no instance)
\* that an instance only updated in place is in the head once the instance is
\* detached
C3_AuthoredElementSurvivesDetach ==
    \A i \in Instances :
        Detached(i) => \A id \in OnlyUpdated(i) : owner[id] = 0 => id \in Ids(head)

\* a detached instance had updated an authored element in place
C3_Witness ==
    \E i \in Instances :
        Detached(i) /\ \E id \in OnlyUpdated(i) : owner[id] = 0 /\ id \in Ids(head)

OgImageElements(h) ==
    {k \in DOMAIN h : h[k].tag = "meta" /\ HasAttr(h[k], "property", <<"og:", "image">>)}

\* openGraph.images is a list of one image with a url
SingleImage(config) ==
    LET imgs == Get(Get(config, "openGraph"), "images")
    IN imgs.t = "array" /\ Len(imgs.v) = 1 /\ Truthy(Get(imgs.v[1], "url"))

ImageUrl(config) == Get(Get(Get(config, "openGraph"), "images").v[1], "url").v

\* the last step changed the images of an instance from [{url: a}] to [{url: b}], a # b
ImageReplaced ==
    /\ last.kind = "update" /\ last.ran
    /\ SingleImage(last.from) /\ SingleImage(inst[last.i].config)
    /\ ImageUrl(last.from) # ImageUrl(inst[last.i].config)

\* C5: after the pass that follows a change of images from [{url: a}] to
\* [{url: b}] the head holds exactly one og:image meta and its content is b;
\* no state holds two og:image metas
C5_OneOgImageAfterReplacement ==
    /\ ImageReplaced =>
          /\ Cardinality(OgImageElements(head)) = 1
          /\ \A k \in OgImageElements(head) :
                head[k].attrs["content"] = ImageUrl(inst[last.i].config)
    /\ Cardinality(OgImageElements(head)) <= 1

C5_Witness ==
    ImageReplaced /\ Cardinality(OgImageElements(head)) = 1

\* the elements a pass with this configuration upserts (found or created by an
\* identity selector), as they are after the pass on an empty head
Upserted(config) ==
    LET solo == Pass(<<>>, 1, config).head
    IN {solo[k] : k \in {j \in DOMAIN solo :
                           solo[j].tag # "script" /\ "data-metafy" \notin DOMAIN solo[j].attrs}}

\* the identity the reconciler keys a tag by
Identity(e) ==
    LET key == CASE e.tag = "title" -> "title"
                 [] e.tag = "meta" /\ "name" \in DOMAIN e.attrs -> "name"
                 [] e.tag = "meta" -> "property"
                 [] "hreflang" \in DOMAIN e.attrs -> "hreflang"
                 [] OTHER -> "rel"
    IN [tag |-> e.tag, key |-> key, val |-> IF key = "title" THEN <<>> ELSE e.attrs[key]]

\* the elements of head h that the identity selector matches
Selected(h, idn) ==
    {k \in DOMAIN h : h[k].tag = idn.tag /\ (idn.key = "title" \/ HasAttr(h[k], idn.key, idn.val))}

\* e carries the payload of the desired tag x
Carries(e, x) ==
    /\ e.text = x.text
    /\ \A a \in DOMAIN x.attrs : a \in DOMAIN e.attrs /\ e.attrs[a] = x.attrs[a]

\* C7: when both instances are mounted and both configurations define a tag
\* identity, after the last pass the head holds exactly one element of that
\* identity and it carries the value of the instance whose pass ran last
C7_LastInstanceWins ==
    (PassRan /\ \A i \in Instances : Mounted(i)) =>
        \A x \in Upserted(inst[last.i].config) :
            (\E j \in Instances \ {last.i} :
                \E y \in Upserted(inst[j].config) : Identity(y) = Identity(x))
            => /\ Cardinality(Selected(head, Identity(x))) = 1
               /\ \A k \in Selected(head, Identity(x)) : Carries(head[k], x)

\* the entries of extraMeta and extraLinks as a pass on an empty head appends them
Extras(config) ==
    LET solo == Pass(<<>>, 1, config).head
    IN {solo[k] : k \in {j \in DOMAIN solo : IsExtraMeta(solo[j]) \/ IsExtraLink(solo[j])}}

\* no extra entry of any instance's configuration has the identity idn, and
\* the head holds at most one element of it that no instance created
Unambiguous(idn) ==
    /\ \A i \in Instances : \A e \in Extras(inst[i].config) :
           ~(e.tag = idn.tag /\ (idn.key = "title" \/ HasAttr(e, idn.key, idn.val)))
    /\ Cardinality({k \in Selected(head, idn) : owner[head[k].id] = 0}) <= 1

\* the identities both configurations define, as tags of the last pass
Shared ==
    {x \in Upserted(inst[last.i].config) :
        \E j \in Instances \ {last.i} :
            \E y \in Upserted(inst[j].config) : Identity(y) = Identity(x)}

\* C7 (amended): when both instances are mounted and both configurations
\* define a tag identity that no extraMeta or extraLinks entry of either
\* configuration has and that the authored page holds at most once, after the
\* last pass the head holds exactly one element of that identity and it
\* carries the value of the instance whose pass ran last
C7_LastInstanceWinsUnambiguous ==
    (PassRan /\ \A i \in Instances : Mounted(i)) =>
        \A x \in Shared :
            Unambiguous(Identity(x))
            => /\ Cardinality(Selected(head, Identity(x))) = 1
               /\ \A k \in Selected(head, Identity(x)) : Carries(head[k], x)

\* both instances are mounted, define the description with different values,
\* and the later pass has overwritten the element the earlier one left
C7_Witness ==
    /\ PassRan /\ \A i \in Instances : Mounted(i)
    /\ \E x \in Shared :
          /\ Unambiguous(Identity(x))
          /\ Identity(x).val = <<"description">>
          /\ \E j \in Instances \ {last.i} : \E y \in Upserted(inst[j].config) :
                 Identity(y) = Identity(x) /\ y.attrs # x.attrs
          /\ \E k \in Selected(head, Identity(x)) : head[k].id \in updated[last.i]

(***************************************************************************)
(* The two renderers against each other                                    *)
(***************************************************************************)
\* a head element without its identity and without the engine's marker attribute
Logical(e) ==
    [tag |-> e.tag, attrs |-> [a \in DOMAIN e.attrs \ {"data-metafy"} |-> e.attrs[a]], text |-> e.text]

LogicalTags(h) == {Logical(h[k]) : k \in DOMAIN h}

NoDuplicateTags(h) == \A j, k \in DOMAIN h : j # k => Logical(h[j]) # Logical(h[k])

\* the first pass of the page has just run, by an instance mounted with the
\* configuration the server rendered
MountedOverServerMarkup ==
    /\ fn.name = "generateSeoMarkup"
    /\ last.kind = "mount" /\ last.n = 1 /\ last.ran
    /\ inst[last.i].config = fn.args

\* C6: mounting over server-rendered markup with the identical configuration
\* leaves no two elements for one logical tag and no more elements than the
\* server rendered
C6_MountReplacesServerMarkup ==
    MountedOverServerMarkup => NoDuplicateTags(head) /\ Len(head) <= Len(fn.result)

\* the first pass of the page has just run and the page had an empty head
FirstPassOnEmptyHead ==
    /\ last.kind = "mount" /\ last.n = 1 /\ last.ran
    /\ \A id \in DOMAIN owner : owner[id] # 0

\* C8: after one pass on an empty head the head holds the logical tags that
\* generateSeoMarkup emits for the same configuration
C8_RenderersAgree ==
    FirstPassOnEmptyHead =>
        LogicalTags(head) = LogicalTags(ParseMarkup(generateSeoMarkup(inst[last.i].config)))

\* the value of attribute a of a markup tag (<<>> when the tag has none)
AttrOf(t, a) ==
    LET hits == {k \in DOMAIN t.attrs : t.attrs[k][1] = a}
    IN IF hits = {} THEN <<>> ELSE t.attrs[CHOOSE k \in hits : \A j \in hits : k <= j][2]

\* the place of a tag in the order the specification fixes
Rank(t) ==
    LET name == AttrOf(t, "name")
        property == AttrOf(t, "property")
        rel == AttrOf(t, "rel")
    IN CASE t.tag = "title" -> 1
         [] t.tag = "script" -> 21
         [] t.tag = "meta" /\ name = <<"description">> -> 2
         [] t.tag = "meta" /\ name = <<"robots">> -> 3
         [] t.tag = "meta" /\ name = <<"viewport">> -> 4
         [] t.tag = "meta" /\ name = <<"theme-color">> -> 5
         [] t.tag = "meta" /\ name = <<"author">> -> 6
         [] t.tag = "meta" /\ name = <<"publisher">> -> 7
         [] t.tag = "meta" /\ name = <<"language">> -> 8
         [] t.tag = "meta" /\ name \in {<<"google-site-verification">>, <<"msvalidate.01">>,
                                        <<"yandex-verification">>, <<"p:domain_verify">>} -> 10
         [] t.tag = "meta" /\ property = <<"fb:app_id">> -> 11
         [] t.tag = "meta" /\ IsPrefix(<<"og:">>, property) -> 17
         [] t.tag = "meta" /\ IsPrefix(<<"twitter:">>, name) -> 18
         [] t.tag = "meta" -> 19
         [] rel = <<"canonical">> -> 9
         [] AttrOf(t, "hreflang") # <<>> -> 12
         [] rel = <<"icon">> -> 13
         [] rel = <<"apple-touch-icon">> -> 14
         [] rel = <<"manifest">> -> 15
         [] rel = <<"mask-icon">> -> 16
         [] OTHER -> 20

GenerateDone == fn.name = "generateSeoMarkup" /\ fn.done

\* C9: generateSeoMarkup emits its tags in the fixed order: title, description,
\* robots, viewport, theme-color, author, publisher, language, canonical,
\* site verification, fb:app_id, language alternates, icon, apple-touch-icon,
\* manifest, mask-icon, Open Graph, Twitter, extra metas, extra links,
\* structured data
C9_MarkupInFixedOrder ==
    GenerateDone =>
        \A j, k \in DOMAIN fn.result : j < k => Rank(fn.result[j]) <= Rank(fn.result[k])

(***************************************************************************)
(* The config merger                                                       *)
(***************************************************************************)
RECURSIVE GetPath(_, _)
GetPath(o, path) == IF path = <<>> THEN o ELSE GetPath(Get(o, Head(path)), Tail(path))

RECURSIVE HasPath(_, _)
HasPath(o, path) ==
    \/ path = <<>>
    \/ HasKey(o, Head(path)) /\ HasPath(Get(o, Head(path)), Tail(path))

\* the scalar leaf fields of the merged configurations
ScalarLeaves ==
    { <<"title">>, <<"titleTemplate">>, <<"description">>, <<"canonical">>,
      <<"twitter", "card">>, <<"twitter", "site">>, <<"twitter", "creator">>,
      <<"openGraph", "title">>, <<"openGraph", "url">> }

MergeDone == fn.name = "mergeConfig" /\ fn.done

\* the defaults a call merges into (none without a provider)
DefaultsOf(call) == IF call.args[1] = NoProvider THEN EmptyObj ELSE call.args[1]

\* C10: every scalar leaf of mergeConfig(defaults, override) is override's
\* value when override defines it and defaults' value otherwise, and a leaf
\* absent from both is absent from the result
C10_ScalarLeafOverrideWins ==
    MergeDone =>
        \A f \in ScalarLeaves :
            /\ GetPath(fn.result, f) =
                  IF GetPath(fn.args[2], f) # Undefined THEN GetPath(fn.args[2], f)
                  ELSE GetPath(DefaultsOf(fn), f)
            /\ (~HasPath(DefaultsOf(fn), f) /\ ~HasPath(fn.args[2], f)) => ~HasPath(fn.result, f)

\* a call of mergeConfig under a provider
MergedWithDefaults == MergeDone /\ fn.args[1] # NoProvider

\* every field of d that o leaves undefined is in r with d's value, at every
\* depth of the objects that d and o both hold
RECURSIVE DefaultsSurvive(_, _, _)
DefaultsSurvive(d, o, r) ==
    \A k \in DOMAIN d.v :
        /\ Get(o, k) = Undefined => Get(r, k) = d.v[k]
        /\ (d.v[k].t = "object" /\ Get(o, k).t = "object")
              => Get(r, k).t = "object" /\ DefaultsSurvive(d.v[k], Get(o, k), Get(r, k))

\* the object-valued fields the merge descends into
NestedObjects == { <<"openGraph">>, <<"twitter">>, <<"openGraph", "article">> }

\* C11: for an object-valued field that defaults and override both hold, the
\* merge is recursive: every nested field that only defaults defines is in
\* the result with its default value, whatever siblings override defines; and
\* merge({title:A, twitter:{site:x}}, {title:B}) is {title:B, twitter:{site:x}}
C11_NestedDefaultsSurvive ==
    MergedWithDefaults =>
        /\ \A f \in NestedObjects :
              (GetPath(fn.args[1], f).t = "object" /\ GetPath(fn.args[2], f).t = "object")
              => /\ GetPath(fn.result, f).t = "object"
                 /\ DefaultsSurvive(GetPath(fn.args[1], f), GetPath(fn.args[2], f), GetPath(fn.result, f))
        /\ ( /\ fn.args[1] = Obj(("title" :> Str(<<"A">>)) @@ ("twitter" :> Obj("site" :> Str(<<"@x">>))))
             /\ fn.args[2] = Obj("title" :> Str(<<"B">>)) )
           => fn.result = Obj(("title" :> Str(<<"B">>)) @@ ("twitter" :> Obj("site" :> Str(<<"@x">>))))

\* override defined siblings in twitter and in openGraph.article; the fields
\* only defaults defined are in the result next to them
C11_Witness ==
    /\ MergedWithDefaults
    /\ GetPath(fn.args[2], <<"twitter", "card">>) # Undefined
    /\ GetPath(fn.args[2], <<"twitter", "site">>) = Undefined
    /\ GetPath(fn.result, <<"twitter", "site">>) = Str(<<"@x">>)
    /\ GetPath(fn.result, <<"twitter", "card">>) = Str(<<"summary">>)

\* the array-valued fields of the merged configurations
ArrayLeaves ==
    { <<"extraMeta">>, <<"extraLinks">>, <<"structuredData">>,
      <<"openGraph", "images">>, <<"openGraph", "article", "tags">> }

\* C12: an array-valued field of the merged configuration is exactly
\* override's array when override defines it and defaults' array otherwise
C12_ArraysReplacedWholesale ==
    MergeDone =>
        \A f \in ArrayLeaves :
            GetPath(fn.result, f) =
                IF GetPath(fn.args[2], f) # Undefined THEN GetPath(fn.args[2], f)
                ELSE GetPath(DefaultsOf(fn), f)

\* defaults and override both held arrays, of different contents, and the
\* result holds override's
C12_Witness ==
    /\ MergedWithDefaults
    /\ \E f \in ArrayLeaves :
          /\ GetPath(fn.args[1], f).t = "array" /\ GetPath(fn.args[1], f).v # <<>>
          /\ GetPath(fn.args[2], f).t = "array"
          /\ GetPath(fn.args[2], f) # GetPath(fn.args[1], f)
          /\ GetPath(fn.result, f) = GetPath(fn.args[2], f)
    /\ \E f \in ArrayLeaves :
          /\ GetPath(fn.args[1], f).t = "array"
          /\ GetPath(fn.args[2], f) = Undefined
          /\ GetPath(fn.result, f) = GetPath(fn.args[1], f)

\* C13: the merged titleTemplate is defaults' only when override has no
\* titleTemplate; a titleTemplate that override defines, the empty string
\* included, is the merged one
C13_TemplateFallbackOnlyWhenAbsent ==
    MergeDone =>
        Get(fn.result, "titleTemplate") =
            IF Get(fn.args[2], "titleTemplate") = Undefined
            THEN Get(DefaultsOf(fn), "titleTemplate")
            ELSE Get(fn.args[2], "titleTemplate")

(***************************************************************************)
(* What the two renderers emit for one configuration                       *)
(***************************************************************************)
RenderDone == fn.name \in {"generateSeoMarkup", "SeoTags"} /\ fn.done

\* the elements a finished call of either renderer produced
Rendered == IF fn.name = "generateSeoMarkup" THEN ParseMarkup(fn.result) ELSE fn.result

\* the texts of the title elements among them
TitleTexts == {Rendered[k].text : k \in {j \in DOMAIN Rendered : Rendered[j].tag = "title"}}

\* template with its first %s replaced by title, literally
LiteralTitle(template, title) ==
    LET hits == {i \in DOMAIN template : template[i] = "%s"}
    IN IF hits = {} THEN template
       ELSE LET i == CHOOSE i \in hits : \A j \in hits : i <= j
            IN SubSeq(template, 1, i - 1) \o title \o SubSeq(template, i + 1, Len(template))

\* C14: in both renderers the title text is the template with its first %s
\* replaced by the title, once; the title itself without a template; and
\* there is no title tag without a title
C14_TitleTemplateApplied ==
    RenderDone =>
        LET title == Get(fn.args, "title")
            template == Get(fn.args, "titleTemplate")
        IN IF ~Truthy(title) THEN TitleTexts = {}
           ELSE TitleTexts = { IF Truthy(template) THEN LiteralTitle(template.v, title.v)
                               ELSE title.v }

\* the values of attribute a of the rendered elements with tag tag whose
\* attribute key is val
RenderedValues(tag, key, val, a) ==
    {Rendered[k].attrs[a] : k \in {j \in DOMAIN Rendered :
        /\ Rendered[j].tag = tag
        /\ HasAttr(Rendered[j], key, val)
        /\ a \in DOMAIN Rendered[j].attrs}}

RobotsTags == {k \in DOMAIN Rendered : Rendered[k].tag = "meta" /\ HasAttr(Rendered[k], "name", <<"robots">>)}

\* C15: in both renderers the robots content is noindex,nofollow when both
\* flags are true, noindex or nofollow when one is, else the robots string
\* when it is not empty, else there is no robots tag
C15_RobotsPrecedence ==
    RenderDone =>
        LET noindex == Get(fn.args, "noindex") = Bool(TRUE)
            nofollow == Get(fn.args, "nofollow") = Bool(TRUE)
            robots == Get(fn.args, "robots")
            expected == CASE noindex /\ nofollow -> {<<"noindex", ",", "nofollow">>}
                          [] noindex -> {<<"noindex">>}
                          [] nofollow -> {<<"nofollow">>}
                          [] robots.t = "string" /\ robots.v # <<>> -> {robots.v}
                          [] OTHER -> {}
        IN /\ RenderedValues("meta", "name", <<"robots">>, "content") = expected
           /\ Cardinality(RobotsTags) = Cardinality(expected)

\* a renderer was given noindex with an explicit index,follow and emitted noindex
C15_Witness ==
    /\ RenderDone
    /\ Get(fn.args, "noindex") = Bool(TRUE)
    /\ Get(fn.args, "nofollow") # Bool(TRUE)
    /\ Get(fn.args, "robots") = Str(<<"index,follow">>)
    /\ RenderedValues("meta", "name", <<"robots">>, "content") = {<<"noindex">>}

(***************************************************************************)
(* Escaping in the markup                                                  *)
(***************************************************************************)
\* s with each special character written as its entity, in one pass
RECURSIVE EntityEncoded(_)
EntityEncoded(s) ==
    IF s = <<>> THEN <<>>
    ELSE (CASE Head(s) = "&" -> <<"&", "amp;">>
            [] Head(s) = "<" -> <<"&", "lt;">>
            [] Head(s) = ">" -> <<"&", "gt;">>
            [] Head(s) = "\"" -> <<"&", "quot;">>
            [] Head(s) = "'" -> <<"&", "#x27;">>
            [] OTHER -> <<Head(s)>>)
         \o EntityEncoded(Tail(s))

\* s holds none of < > " ' and each & of s starts one of the five entities
NoRawSpecial(s) ==
    \A i \in DOMAIN s :
        /\ s[i] \notin {"<", ">", "\"", "'"}
        /\ s[i] = "&" => i < Len(s) /\ s[i + 1] \in {"amp;", "lt;", "gt;", "quot;", "#x27;"}

\* the values of attribute a of the markup tags with tag tag whose attribute
\* key is val
MarkupValues(tag, key, val, a) ==
    {AttrOf(fn.result[k], a) : k \in {j \in DOMAIN fn.result :
        fn.result[j].tag = tag /\ AttrOf(fn.result[j], key) = val}}

\* C16: in the markup every attribute value and the title text hold no raw
\* < > " ' and no & that is not the start of an entity; the description, the
\* canonical href and the title are their values entity-encoded in one pass
\* (an entity the escape wrote is not escaped again)
C16_MarkupEscaped ==
    GenerateDone =>
        /\ \A k \in DOMAIN fn.result :
              fn.result[k].tag # "script" =>
                 /\ NoRawSpecial(fn.result[k].text)
                 /\ \A a \in DOMAIN fn.result[k].attrs : NoRawSpecial(fn.result[k].attrs[a][2])
        /\ Truthy(Get(fn.args, "description")) =>
              MarkupValues("meta", "name", <<"description">>, "content")
                 = {EntityEncoded(Get(fn.args, "description").v)}
        /\ Truthy(Get(fn.args, "canonical")) =>
              MarkupValues("link", "rel", <<"canonical">>, "href")
                 = {EntityEncoded(Get(fn.args, "canonical").v)}
        /\ (Truthy(Get(fn.args, "title")) /\ ~Truthy(Get(fn.args, "titleTemplate"))) =>
              \A k \in DOMAIN fn.result :
                 fn.result[k].tag = "title" => fn.result[k].text = EntityEncoded(Get(fn.args, "title").v)
        /\ Get(fn.args, "description") = Quoted =>
              MarkupValues("meta", "name", <<"description">>, "content")
                 = {<<"He said ", "&", "quot;", "hi", "&", "quot;", " ", "&", "amp;", " ",
                      "&", "lt;", "left", "&", "gt;">>}

\* the markup of a configuration whose description holds " & < > and whose
\* title holds an entity-like text
C16_Witness ==
    /\ GenerateDone
    /\ \/ /\ Get(fn.args, "description") = Quoted
          /\ \E k \in DOMAIN fn.result : AttrOf(fn.result[k], "name") = <<"description">>
       \/ /\ Get(fn.args, "title") = Str(<<"Q", "&", "A">>)
          /\ \E k \in DOMAIN fn.result : fn.result[k].text = <<"Q", "&", "amp;", "A">>

(***************************************************************************)
(* Structured data in the markup                                           *)
(***************************************************************************)
\* the script tags of the markup, in the order of the markup
MarkupScripts == SelectSeq(fn.result, LAMBDA t : t.tag = "script")

\* the entries of structuredData of the configuration rendered
Entries ==
    IF Get(fn.args, "structuredData").t = "array" THEN Get(fn.args, "structuredData").v ELSE <<>>

C18_ServerNoOp ==
    [][isServer =>
          /\ head' = head
          /\ nextId' = nextId
          /\ \A i \in Instances : inst'[i].cleanup = NoCleanup /\ inst'[i].prevConfigRef = <<>>
          /\ (fn' # fn => fn'.result = [added |-> <<>>, upd |-> {}])]_vars

\* on the server an instance was mounted and re-rendered with a title and a
\* description over an authored head, and upsertTag was called for a tag the
\* head holds
C18_Witness ==
    /\ isServer
    /\ head = AuthoredHead
    /\ last.kind = "update"
    /\ Truthy(Get(inst[last.i].config, "title"))
    /\ fn.name = "upsertTag" /\ fn.args[3] = <<"description">>

(***************************************************************************)
(* Empty values                                                            *)
(***************************************************************************)
\* C19: no element either renderer produces has an empty content or href
C19_NoEmptyContentOrHref ==
    RenderDone =>
        \A k \in DOMAIN Rendered :
            \A a \in {"content", "href"} \cap DOMAIN Rendered[k].attrs : Rendered[k].attrs[a] # <<>>

(***************************************************************************)
(* Consecutive passes of one instance                                      *)
(***************************************************************************)
\* the ids of the elements of head h that the identity selector matches
SelectedIds(h, idn) == {h[k].id : k \in Selected(h, idn)}

\* C20: when a pass of a mounted instance follows an earlier pass of it and
\* both configurations define a tag identity, the element that carries the
\* identity after the second pass is the element that carried it before
C20_SameElementAcrossPasses ==
    [][\A i \in Instances :
          ( /\ Mounted(i) /\ inst[i].cleanup.reg
            /\ last'.kind = "update" /\ last'.i = i /\ last'.ran )
          => \A x \in Upserted(inst[i].config) :
                (\E y \in Upserted(inst'[i].config) : Identity(y) = Identity(x))
                => SelectedIds(head', Identity(x)) = SelectedIds(head, Identity(x))]_vars

(***************************************************************************)
(* Reconciliation across config changes                                    *)
(***************************************************************************)
\* C21: when a config change of a mounted instance has run its pass, every
\* element the previous pass of that instance created whose tag the new
\* configuration does not describe is absent from the head
C21_DroppedTagsRemovedOnUpdate ==
    [][\A i \in Instances :
          ( /\ Mounted(i)
            /\ last'.kind = "update" /\ last'.i = i /\ last'.n = last.n + 1 /\ last'.ran )
          => \A k \in DOMAIN head :
                ( /\ head[k].id \in Range(inst[i].cleanup.added)
                  /\ Logical(head[k]) \notin LogicalTags(Pass(<<>>, 1, inst'[i].config).head) )
                => head[k].id \notin Ids(head')]_vars

\* an instance that had created a title changed to a configuration without
\* one: the pass ran, the title it created is gone and the head has no title
C21_Witness ==
    /\ last.kind = "update" /\ last.ran /\ last.n = 2
    /\ Truthy(Get(last.from, "title"))
    /\ ~Truthy(Get(inst[last.i].config, "title"))
    /\ queryTitle(head) = 0
    /\ \E id \in DOMAIN owner : owner[id] = last.i /\ id \notin Ids(head)
    /\ \E k \in DOMAIN head : owner[head[k].id] = last.i

(***************************************************************************)
(* upsertTag                                                               *)
(***************************************************************************)
\* C22: a call of upsertTag in the browser whose selector matches an element
\* of the head creates nothing, records nothing in added and leaves that
\* element with exactly the attributes of the descriptor; a call whose
\* selector matches nothing appends exactly one new element that has the
\* descriptor's attributes and records it in added
C22_UpsertUpdatesOrCreates ==
    [][(fn'.name = "upsertTag" /\ ~isServer) =>
          LET a == fn'.args
              idx == querySelector(head, a[1], a[2], a[3])
          IN IF idx # 0
             THEN /\ Len(head') = Len(head)
                  /\ fn'.result.added = <<>>
                  /\ \A k \in DOMAIN head : k # idx => head'[k] = head[k]
                  /\ head'[idx].id = head[idx].id
                  /\ head'[idx].attrs = a[4]
             ELSE /\ Len(head') = Len(head) + 1
                  /\ SubSeq(head', 1, Len(head)) = head
                  /\ head'[Len(head')].tag = a[1]
                  /\ head'[Len(head')].attrs = a[4]
                  /\ head'[Len(head')].id \notin Ids(head)
                  /\ fn'.result.added = <<head'[Len(head')].id>>]_vars

(***************************************************************************)
(* Categories that are replaced wholesale                                  *)
(***************************************************************************)
\* the properties the nested Open Graph array fields are emitted under
OgArrayProperties ==
    {<<"og:", key, ":", nestedKey>> :
        key \in {"article", "book", "video"},
        nestedKey \in {"authors", "tags", "actors", "directors", "writers"}}

\* e belongs to a category the pass clears and emits again as a whole
WholesaleCategory(e) ==
    \/ e.tag = "meta" /\ HasAttrPrefix(e, "property", <<"og:", "image">>)
    \/ e.tag = "meta" /\ "property" \in DOMAIN e.attrs /\ e.attrs["property"] \in OgArrayProperties
    \/ IsStructuredScript(e)
    \/ IsExtraMeta(e)
    \/ IsExtraLink(e)

\* the last step was a pass that was not skipped
PassStep == last'.n = last.n + 1 /\ last'.kind \in {"mount", "update"} /\ last'.ran

\* C23: after a pass that is not skipped every element of a wholesale
\* category in the head was created in that pass (none was in the head before
\* the pass began), and every element the pass created is still in the head
C23_WholesaleCategoriesReemitted ==
    [][PassStep =>
          /\ \A k \in DOMAIN head' :
                 WholesaleCategory(head'[k]) => head'[k].id \in nextId .. (nextId' - 1)
          /\ \A id \in nextId .. (nextId' - 1) : id \in Ids(head')]_vars

(***************************************************************************)
(* Lists: one tag per element                                              *)
(***************************************************************************)
\* the <<property, content>> pairs of the metas of h whose property starts
\* with p, in document order
PropertyMetas(h, p) ==
    LET hits == SelectSeq(h, LAMBDA e : e.tag = "meta" /\ HasAttrPrefix(e, "property", p))
    IN [k \in DOMAIN hits |-> <<hits[k].attrs["property"], hits[k].attrs["content"]>>]

\* the pairs a list of images calls for: og:image for each entry, followed by
\* that entry's alt, width, height and type when it has them
RECURSIVE ExpectedImageTags(_)
ExpectedImageTags(imgs) ==
    IF imgs = <<>> THEN <<>>
    ELSE LET img == Head(imgs)
             opt(field) == IF Truthy(Get(img, field))
                           THEN << <<<<"og:", "image", ":", field>>, ToStr(Get(img, field))>> >>
                           ELSE <<>>
         IN << <<<<"og:", "image">>, ToStr(Get(img, "url"))>> >>
            \o opt("alt") \o opt("width") \o opt("height") \o opt("type")
            \o ExpectedImageTags(Tail(imgs))

\* C24: what either renderer produces for a configuration holds, for a list
\* of n images, the n og:image metas in list order, each followed by the
\* alt, width, height and type metas of its entry, and for a list of n
\* article tags n og:article:tags metas in list order
C24_OneTagPerListElement ==
    RenderDone =>
        LET og == Get(fn.args, "openGraph")
            imgs == Get(og, "images")
            tags == Get(Get(og, "article"), "tags")
        IN /\ imgs.t = "array" =>
                 PropertyMetas(Rendered, <<"og:", "image">>) = ExpectedImageTags(imgs.v)
           /\ tags.t = "array" =>
                 PropertyMetas(Rendered, <<"og:", "article", ":", "tags">>)
                 = [k \in DOMAIN tags.v |-> <<<<"og:", "article", ":", "tags">>, ToStr(tags.v[k])>>]

(***************************************************************************)
(* Descriptors of one pass that share an identity                          *)
(***************************************************************************)
\* the elements of the head that meta[property="..."] selects
PropertyElements(h, p) == {k \in DOMAIN h : h[k].tag = "meta" /\ HasAttr(h[k], "property", p)}

\* a list of two or more entries
Several(x) == x.t = "array" /\ Len(x.v) >= 2

\* C25: when the configuration of a pass has a list of several images, or of
\* several article tags, the descriptors of its entries resolve to one
\* identity selector: the pass completes, the head afterwards holds exactly
\* one element of that identity, and its content is that of the last entry
C25_LastDescriptorWins ==
    PassRan =>
        LET og == Get(inst[last.i].config, "openGraph")
            imgs == Get(og, "images")
            tags == Get(Get(og, "article"), "tags")
        IN /\ (Several(imgs) /\ \A j \in DOMAIN imgs.v : Truthy(Get(imgs.v[j], "url"))) =>
                 /\ Cardinality(PropertyElements(head, <<"og:", "image">>)) = 1
                 /\ \A k \in PropertyElements(head, <<"og:", "image">>) :
                        head[k].attrs["content"] = ToStr(Get(imgs.v[Len(imgs.v)], "url"))
           /\ Several(tags) =>
                 /\ Cardinality(PropertyElements(head, <<"og:", "article", ":", "tags">>)) = 1
                 /\ \A k \in PropertyElements(head, <<"og:", "article", ":", "tags">>) :
                        head[k].attrs["content"] = ToStr(tags.v[Len(tags.v)])

\* a pass whose configuration lists two images with different urls has run
\* on a page that was authored with an og:image of its own
C25_Witness ==
    /\ PassRan
    /\ \E id \in DOMAIN owner : owner[id] = 0
    /\ LET imgs == Get(Get(inst[last.i].config, "openGraph"), "images")
       IN /\ Several(imgs)
          /\ Get(imgs.v[1], "url") # Get(imgs.v[2], "url")
          /\ \E k \in PropertyElements(head, <<"og:", "image">>) :
                 owner[head[k].id] = last.i

(***************************************************************************)
(* Mount, change, unmount                                                  *)
(***************************************************************************)
\* C26: on a page whose head began as UnmanagedHead, once an instance has
\* been mounted, changed and invoked again in any way and then unmounted,
\* and no other instance was ever mounted, the head is again exactly the
\* initial head
C26_MountUnmountRoundTrip ==
    \A i \in Instances :
        (Detached(i) /\ \A j \in Instances \ {i} : inst[j].status = "unmounted")
        => head = UnmanagedHead

\* an instance was mounted, went through two more steps in which its passes
\* created elements, and was unmounted; no other instance was mounted
C26_Witness ==
    \E i \in Instances :
        /\ Detached(i) /\ \A j \in Instances \ {i} : inst[j].status = "unmounted"
        /\ last.kind = "unmount" /\ last.n = 4
        /\ Cardinality({id \in DOMAIN owner : owner[id] = i}) >= 4
        /\ head = UnmanagedHead

(***************************************************************************)
(* An effect invoked again with the configuration it already ran with      *)
(***************************************************************************)
\* C28: when the cleanup of an instance has run and its effect is invoked
\* again with a configuration that serializes as prevConfigRef, the
\* invocation is skipped: it only removes what the cleanup removes,
\* registers no cleanup, and for as long as the instance is mounted without
\* a registered cleanup (its configuration has not changed since) no element
\* any of its passes created is in the head
C28_ReinvokedEffectSkipped ==
    /\ [](\A i \in Instances :
             (Mounted(i) /\ ~inst[i].cleanup.reg) =>
                 \A k \in DOMAIN head : owner[head[k].id] # i)
    /\ [][\A i \in Instances :
             ( /\ Mounted(i)
               /\ last'.kind = "reinvoke" /\ last'.i = i /\ last'.n = last.n + 1
               /\ JSONstringify(inst[i].config) = inst[i].prevConfigRef )
             => ( /\ ~last'.ran
                  /\ ~inst'[i].cleanup.reg
                  /\ head' = Cleanup(head, inst[i].cleanup.added)
                  /\ nextId' = nextId
                  /\ inst'[i].prevConfigRef = inst[i].prevConfigRef )]_vars

\* an instance whose pass had created its description was invoked again: the
\* instance is mounted and wants a description, the head has none
C28_Witness ==
    /\ last.kind = "reinvoke" /\ ~last.ran
    /\ Mounted(last.i) /\ ~inst[last.i].cleanup.reg
    /\ Truthy(Get(inst[last.i].config, "description"))
    /\ querySelector(head, "meta", "name", <<"description">>) = 0
    /\ \E id \in DOMAIN owner : owner[id] = last.i /\ id \notin Ids(head)

(***************************************************************************)
(* Authored elements the engine wrote to                                   *)
(***************************************************************************)
\* the authored element with this id as the page was delivered (the authored
\* pages differ in the number of their elements)
Original(id) ==
    IF Cardinality({x \in DOMAIN owner : owner[x] = 0}) = Len(AuthoredHead)
    THEN AuthoredHead[id] ELSE DuplicateHead[id]

\* the configuration defines no value for the field element e shows
Dropped(e, config) ==
    \/ e.tag = "title" /\ ~Truthy(Get(config, "title"))
    \/ e.tag = "meta" /\ HasAttr(e, "name", <<"description">>)
                      /\ ~Truthy(Get(config, "description"))

\* C27: an authored <title> or meta[name=description] that an instance has
\* updated in place never shows its original value again, and it comes out
\* unchanged of every later step of that instance that is its detach or a
\* config change to a configuration without the field: it keeps the last
\* value the engine wrote
C27_UpdatedElementKeepsLastValue ==
    /\ [](\A i \in Instances : \A id \in updated[i] :
             owner[id] = 0 =>
                 \E k \in DOMAIN head : head[k].id = id /\ head[k] # Original(id))
    /\ [][\A i \in Instances :
             ( /\ Mounted(i)
               /\ last'.i = i /\ last'.n = last.n + 1
               /\ last'.kind \in {"update", "unmount"} )
             => \A k \in DOMAIN head :
                   ( /\ owner[head[k].id] = 0
                     /\ head[k].id \in updated[i]
                     /\ last'.kind = "update" => Dropped(head[k], inst'[i].config) )
                   => \E j \in DOMAIN head' : head'[j] = head[k]]_vars

\* an instance that alone wrote to the authored title and description was
\* changed to a configuration without either and then unmounted; the title
\* in the head is not the authored one
C27_Witness ==
    \E i \in Instances :
        /\ Detached(i) /\ \A j \in Instances \ {i} : inst[j].status = "unmounted"
        /\ last.kind = "unmount" /\ last.n >= 3
        /\ ~Truthy(Get(inst[i].config, "title"))
        /\ ~Truthy(Get(inst[i].config, "description"))
        /\ {1, 2} \subseteq updated[i]
        /\ owner[1] = 0 /\ owner[2] = 0
        /\ head[1].tag = "title" /\ head[1].text \in {<<"A">>, <<"B">>, <<"A", " | Site">>, <<"B", " | Site">>}
        /\ head[2].attrs["content"] \in {<<"d1">>, <<"d2">>}

(***************************************************************************)
(* An element two mounted instances share                                  *)
(***************************************************************************)
\* C29: when an instance is unmounted while another one is mounted, every
\* element it created and the other one updated in place is removed from the
\* head, and every element the other one created and it updated in place
\* stays in the head exactly as it was
C29_CreatorOwnsSharedElement ==
    [][\A i \in Instances : \A j \in Instances \ {i} :
          ( /\ Mounted(i) /\ Mounted(j)
            /\ last'.kind = "unmount" /\ last'.i = i /\ last'.n = last.n + 1 )
          => \A k \in DOMAIN head :
                /\ (owner[head[k].id] = i /\ head[k].id \in updated[j])
                       => head[k].id \notin Ids(head')
                /\ (owner[head[k].id] = j /\ head[k].id \in updated[i])
                       => \E n \in DOMAIN head' : head'[n] = head[k]]_vars

\* the instance that created the description was unmounted; the other one,
\* which had updated it in place, is mounted with a description in its
\* configuration, and the head has no description
C29_Witness ==
    \E i \in Instances : \E j \in Instances \ {i} :
        /\ last.kind = "unmount" /\ last.i = i
        /\ Detached(i) /\ Mounted(j)
        /\ Truthy(Get(inst[j].config, "description"))
        /\ querySelector(head, "meta", "name", <<"description">>) = 0
        /\ \E id \in updated[j] : owner[id] = i /\ id \notin Ids(head)

(***************************************************************************)
(* The inputs of a merge                                                   *)
(***************************************************************************)
\* C30: after any number of calls of mergeConfig on the same defaults and
\* props objects, every object that existed before the first call (the
\* defaults, the props and every object nested in them) has exactly the
\* fields and values it had, and every call has returned the same merged
\* configuration
C30_MergeLeavesInputsUnchanged ==
    fn.name = "mergeConfigRef" =>
        /\ \A a \in DOMAIN fn.before : fn.heap[a] = fn.before[a]
        /\ \A k \in DOMAIN fn.result :
               deref(fn.heap, fn.result[k])
               = mergeConfig(IF fn.args[1] = NoProvider THEN NoProvider
                             ELSE deref(fn.before, fn.args[1]),
                             deref(fn.before, fn.args[2]))

\* mergeConfig was called twice under a provider whose defaults and whose
\* props both have a twitter object, the titleTemplate fallback wrote to the
\* result, and each call made new objects
C30_Witness ==
    /\ fn.name = "mergeConfigRef" /\ Len(fn.result) = 2
    /\ fn.args[1] # NoProvider
    /\ LET d == deref(fn.before, fn.args[1])
           o == deref(fn.before, fn.args[2])
       IN /\ Truthy(Get(d, "titleTemplate")) /\ ~Truthy(Get(o, "titleTemplate"))
          /\ HasKey(o, "titleTemplate")
          /\ IsPlainObject(Get(d, "twitter")) /\ IsPlainObject(Get(o, "twitter"))
    /\ fn.result[1] # fn.result[2]
    /\ Len(fn.heap) >= Len(fn.before) + 4

====
